---- MODULE Spec2Model ----
(***************************************************************************)
(* Model of hist-prototype's buffered B-tree (hist_prototype/tree.py,      *)
(* intermediate_node.py, leaf_node.py).                                    *)
(*                                                                         *)
(* Python objects live in a heap: intermediate nodes are numbered 1..n in  *)
(* allocation order, leaf nodes -1..-m.  Byte keys are modelled by the     *)
(* integers 1..NumKeys with their order (bytes compare lexicographically,  *)
(* a total order); b"" is EmptyKey.  Values are the integers 1..MaxVal;    *)
(* Python's None is NoneVal.                                               *)
(***************************************************************************)
EXTENDS Integers, Sequences, FiniteSets, TLC

\* ------------------------------------------------------------------ bounds
\* Fan-out of an intermediate node.  intermediate_node.py takes 16 from
\* leaf_node.py; the model scales it down so that splits and root growth
\* happen within a few puts.
MAX_CHILDREN == 3
\* Number of distinct keys callers use.
NumKeys == 5
\* Number of distinct values callers write.
MaxVal == 2
\* Number of state-changing calls in one run.
MaxOps == 5
\* Number of state-changing calls in a run that also reads.
MaxReadWrites == 4
\* Number of distinct values written in a run that also reads.
MaxReadVal == 1
\* Largest tx_epoch a tree is constructed with.
MaxEpoch == 1
\* Depth of put's retry recursion the model follows before reporting
\* RecursionError.
MaxRetry == 2
\* Number of threads that call the tree concurrently.
NumThreads == 2
\* Number of calls each thread makes in one run.
ThreadCalls == 1
\* Number of writes a leaf loaded from a store has behind it.
LoadedWrites == 3
\* Largest history_offset of a loaded leaf.
MaxOffset == 1
\* Children of a node of the history index.  types.py takes 170 from
\* constants.py and accepts no node with fewer or more.
HistChildren == 2
\* Largest depth of the root of a history index.
MaxHistDepth == 2
\* Largest tx of a record of a history index.
MaxHistTx == 8

\* IOHandler's default page_size, 256 in the code, scaled down: one byte
\* more than the 9-byte header of a data log entry.
DefaultPageSize == 10
\* A page size given to IOHandler explicitly.
ExplicitPageSize == 3
\* Calls made on one IOHandler.
MaxIoCalls == 3
\* Length of the stream the handler is constructed over.
MaxInitLen == 2
\* Payloads written are numbered 0..MaxSeed.
MaxSeed == 1
\* Data length of the data log entries written.
MaxEntryLen == 2
\* Length of the value test_simple_roundtrip writes (b'abcdefg').
TestValueLen == 7
\* Largest tx, offset or length of a child of a record that is encoded.
MaxField == 66000
\* The depth the codec tests construct their records with.
TestDepth == 3
\* The largest values of one byte and of two (depth is a u16).
U8Max == 255
U16Max == 65535
\* types.py: the size of the value field of a history index child.
VALUE_SIZE == 12

\* --------------------------------------------------------------- constants
NoneVal == 0
EmptyKey == 0
DELETED == 1
PERSIST_HISTORY == 2
DEFAULT_FLAGS == 0

Keys == 1..NumKeys
Values == 1..MaxVal
Epochs == 0..MaxEpoch
Threads == 1..NumThreads
\* The values threads write (which value it is plays no part in put).
ThreadValues == {MaxVal}
\* Transactions as_of is queried with: from before the first write to after
\* the last one.
Taus == (0 - 1)..(MaxEpoch + MaxOps + 1)

VARIABLES
    nodes,               \* heap of IntermediateNode objects: Seq of records
    leaves,              \* heap of LeafNode objects: Seq of records (leaf i has id -i)
    head,                \* BufferedBTree.head (node id)
    tx,                  \* BufferedBTree.tx
    leaf_nodes,          \* BufferedBTree.leaf_nodes (deque of leaf ids)
    intermediate_nodes,  \* BufferedBTree.intermediate_nodes (deque of node ids)
    tx_epoch,            \* the tx_epoch the tree was constructed with
    log,                 \* caller's record of the state-changing calls made
    last,                \* outcome of the most recent call
    threads,             \* per thread: where it stands in put and its locals
    pages,               \* the history index file: offset -> HistoryIndexNode
    search,              \* HistorySearcher.search: its io, request, position, locals
    handler,             \* IOHandler: its file's bytes, its page_size, its last call
    codec                \* a storage record under construction, encoding or decoding

vars == <<nodes, leaves, head, tx, leaf_nodes, intermediate_nodes, tx_epoch, log, last,
          threads, pages, search, handler, codec>>
treeVars == <<nodes, leaves, head, tx, leaf_nodes, intermediate_nodes>>

\* The tree as one value, for the operators below.
Tree == [nodes |-> nodes, leaves |-> leaves, head |-> head, tx |-> tx,
         leaf_nodes |-> leaf_nodes, intermediate_nodes |-> intermediate_nodes]

\* ---------------------------------------------------------------- helpers
Front(s) == SubSeq(s, 1, Len(s) - 1)
Top(s) == s[Len(s)]
InsertAt(s, i, e) == SubSeq(s, 1, i - 1) \o <<e>> \o SubSeq(s, i, Len(s))
\* The first of the indices I at which a loop's test succeeds, 0 when it
\* never does (a Python for loop that returns or breaks at the first hit).
FirstIdx(I) ==
    IF I = {} THEN 0 ELSE CHOOSE i \in I : \A j \in I : i <= j

IsLeaf(c) == c < 0
\* The LeafNode object a leaf reference points at.
LeafAt(T, c) == T.leaves[0 - c]

\* ------------------------------------------------------------ leaf_node.py
\* a ^ b on the two flag bits
Xor2(a, b) ==
    (((a % 2) + (b % 2)) % 2) + 2 * ((((a \div 2) % 2) + ((b \div 2) % 2)) % 2)

HistoryRecord(t, value, delete) == [tx |-> t, value |-> value, delete |-> delete]

LeafNode(key, value, t, init_flags) ==
    [key |-> key, tx |-> t,
     flags |-> Xor2(init_flags, DEFAULT_FLAGS),
     value |-> value, history |-> <<>>, history_write_index |-> 0,
     current_offset |-> 0, history_offset |-> 0, delete |-> FALSE]

\* add_record as it would be if a delete kept the value it replaces.
add_record_keeps_value(leaf, value, t, delete) ==
    [leaf EXCEPT
        !.history = Append(leaf.history, HistoryRecord(leaf.tx, leaf.value, delete)),
        !.tx = t,
        !.delete = delete,
        !.value = IF delete THEN leaf.value ELSE value]

\* add_record as it would be if the record went to the front of the history.
add_record_newest_first(leaf, value, t, delete) ==
    [leaf EXCEPT
        !.history = <<HistoryRecord(leaf.tx, leaf.value, delete)>> \o leaf.history,
        !.tx = t,
        !.delete = delete,
        !.value = IF delete THEN NoneVal ELSE value]

\* add_record as it would be if it did not stamp the leaf with the new tx.
add_record_stale_tx(leaf, value, t, delete) ==
    [leaf EXCEPT
        !.history = Append(leaf.history, HistoryRecord(leaf.tx, leaf.value, delete)),
        !.delete = delete,
        !.value = IF delete THEN NoneVal ELSE value]

add_record(leaf, value, t, delete) ==
    [leaf EXCEPT
        !.history = Append(leaf.history, HistoryRecord(leaf.tx, leaf.value, delete)),
        !.tx = t,
        !.delete = delete,
        !.value = IF delete THEN NoneVal ELSE value]

\* The outcome of LeafNode.as_of: a value (NoneVal for None), a ReadRequest
\* for the history file, or the exception that left the call.
Returned(v) == [raised |-> "none", request |-> FALSE, value |-> v]
ReadRequest(offset, t) == [raised |-> "none", request |-> TRUE, value |-> <<offset, t>>]
Raised(e) == [raised |-> e, request |-> FALSE, value |-> NoneVal]

leaf_as_of(leaf, t) ==
    LET h == leaf.history
        n == Len(h)
    IN  \* self.history[-1] of an empty list raises before anything else
        \* (so the loop's "len(self.history) == 0: return None" is never
        \* reached)
        IF n = 0 THEN Raised("IndexError")
        ELSE IF t < h[n].tx /\ leaf.history_offset > 0
            THEN ReadRequest(leaf.history_offset, t)
        ELSE IF t > leaf.tx /\ ~leaf.delete THEN Returned(leaf.value)
        ELSE IF t > leaf.tx /\ leaf.delete THEN Returned(NoneVal)
        ELSE
            LET i == FirstIdx({j \in 1..n : h[j].tx > t})
                \* Python index i - 1 of the 0-based hit; -1 is the last
                \* element; 0 when the loop never breaks
                index == IF i = 0 THEN 1
                         ELSE IF i = 1 THEN n
                         ELSE i - 1
            IN  IF h[index].tx > t THEN Returned(NoneVal)
                ELSE Returned(h[index].value)

\* ---------------------------------------------------- intermediate_node.py
IntermediateNode(max_key, children, depth) ==
    [max_key |-> max_key, children |-> children, depth |-> depth]

\* full as it would be if it reported one child early.
full_one_early(node) == Len(node.children) >= MAX_CHILDREN - 1

\* full as it would be if it reported one child late.
full_one_late(node) == Len(node.children) > MAX_CHILDREN

full(node) == Len(node.children) >= MAX_CHILDREN

\* The key a child is ordered by in a node of the given depth:
\* child.max_key above depth 1, child.key at depth 1.
OrdKey(T, depth, c) ==
    IF depth > 1 THEN T.nodes[c].max_key ELSE LeafAt(T, c).key

\* search as it would be with a strict comparison above depth 1.
search_intermediate_node_strict(T, n, search_key) ==
    LET node == T.nodes[n]
        i == FirstIdx({j \in 1..Len(node.children) :
                         IF node.depth > 1
                         THEN OrdKey(T, node.depth, node.children[j]) > search_key
                         ELSE OrdKey(T, node.depth, node.children[j]) >= search_key})
    IN  IF Len(node.children) = 0 THEN NoneVal
        ELSE IF i = 0 THEN NoneVal
        ELSE IF node.depth > 1 THEN node.children[i]
        ELSE IF LeafAt(T, node.children[i]).key = search_key THEN node.children[i]
        ELSE NoneVal

\* search as it would be if depth 1 returned the first leaf at or after the
\* key without comparing for equality.
search_intermediate_node_successor(T, n, search_key) ==
    LET node == T.nodes[n]
        i == FirstIdx({j \in 1..Len(node.children) :
                         OrdKey(T, node.depth, node.children[j]) >= search_key})
    IN  IF Len(node.children) = 0 THEN NoneVal
        ELSE IF i = 0 THEN NoneVal
        ELSE node.children[i]

search_intermediate_node(T, n, search_key) ==
    LET node == T.nodes[n]
        i == FirstIdx({j \in 1..Len(node.children) :
                         OrdKey(T, node.depth, node.children[j]) >= search_key})
    IN  IF Len(node.children) = 0 THEN NoneVal
        ELSE IF i = 0 THEN NoneVal
        ELSE IF node.depth > 1 THEN node.children[i]
        ELSE IF LeafAt(T, node.children[i]).key = search_key THEN node.children[i]
        ELSE NoneVal

node_for_insert(T, n, search_key) ==
    LET node == T.nodes[n]
        i == FirstIdx({j \in 1..Len(node.children) :
                         T.nodes[node.children[j]].max_key >= search_key})
    IN  IF Len(node.children) = 0 THEN NoneVal
        ELSE IF node.depth > 1
            THEN (IF i = 0 THEN Top(node.children) ELSE node.children[i])
        ELSE n

\* Result of an operation that may raise: the tree it leaves and the
\* exception ("none" when it returned).
Outcome(T, e) == [T |-> T, raised |-> e]

\* insert as it would be if an append left max_key as it was.
insert_into_intermediate_node_stale_max(T, n, new_node) ==
    LET node == T.nodes[n]
        k == OrdKey(T, node.depth, new_node)
        i == FirstIdx({j \in 1..Len(node.children) :
                         OrdKey(T, node.depth, node.children[j]) >= k})
    IN  IF full(node) THEN Outcome(T, "NodeFullError")
        ELSE IF i = 0
            THEN Outcome([T EXCEPT !.nodes[n].children = Append(@, new_node)], "none")
        ELSE IF OrdKey(T, node.depth, node.children[i]) = k
            THEN Outcome(T, "ValueError")
        ELSE Outcome([T EXCEPT !.nodes[n].children = InsertAt(@, i, new_node)],
                     "none")

\* insert as it would be if a child with the same key were replaced ("If
\* the keys match, replace the node entirely") instead of refused.
insert_into_intermediate_node_replaces(T, n, new_node) ==
    LET node == T.nodes[n]
        k == OrdKey(T, node.depth, new_node)
        i == FirstIdx({j \in 1..Len(node.children) :
                         OrdKey(T, node.depth, node.children[j]) >= k})
    IN  IF full(node) THEN Outcome(T, "NodeFullError")
        ELSE IF i = 0
            THEN Outcome([T EXCEPT !.nodes[n].children = Append(@, new_node),
                                   !.nodes[n].max_key = k], "none")
        ELSE IF OrdKey(T, node.depth, node.children[i]) = k
            THEN Outcome([T EXCEPT !.nodes[n].children[i] = new_node], "none")
        ELSE Outcome([T EXCEPT !.nodes[n].children = InsertAt(@, i, new_node)],
                     "none")

insert_into_intermediate_node(T, n, new_node) ==
    LET node == T.nodes[n]
        k == OrdKey(T, node.depth, new_node)
        i == FirstIdx({j \in 1..Len(node.children) :
                         OrdKey(T, node.depth, node.children[j]) >= k})
    IN  IF full(node) THEN Outcome(T, "NodeFullError")
        ELSE IF i = 0
            THEN Outcome([T EXCEPT !.nodes[n].children = Append(@, new_node),
                                   !.nodes[n].max_key = k], "none")
        ELSE IF OrdKey(T, node.depth, node.children[i]) = k
            THEN Outcome(T, "ValueError")
        ELSE Outcome([T EXCEPT !.nodes[n].children = InsertAt(@, i, new_node)],
                     "none")

\* split as it would be if the node that keeps the left half kept its
\* max_key too.
split_intermediate_node_stale_max(T, n) ==
    LET node == T.nodes[n]
        mid_point == Len(node.children) \div 2
        new_node_children == SubSeq(node.children, mid_point + 1, Len(node.children))
        kept == SubSeq(node.children, 1, mid_point)
        new_id == Len(T.nodes) + 1
        new_node == IntermediateNode(OrdKey(T, node.depth, Top(new_node_children)),
                                     new_node_children, node.depth)
    IN  [T |-> [T EXCEPT !.nodes = Append([@ EXCEPT ![n].children = kept], new_node)],
         new_node |-> new_id]

\* split as it would be if the mid point were rounded up.
split_intermediate_node_round_up(T, n) ==
    LET node == T.nodes[n]
        mid_point == (Len(node.children) + 1) \div 2
        new_node_children == SubSeq(node.children, mid_point + 1, Len(node.children))
        kept == SubSeq(node.children, 1, mid_point)
        new_id == Len(T.nodes) + 1
        new_node == IntermediateNode(OrdKey(T, node.depth, Top(new_node_children)),
                                     new_node_children, node.depth)
    IN  [T |-> [T EXCEPT
                  !.nodes = Append([@ EXCEPT ![n].children = kept,
                                             ![n].max_key = OrdKey(T, node.depth, Top(kept))],
                                   new_node)],
         new_node |-> new_id]

\* split_intermediate_node allocates the sibling; the result names it.
split_intermediate_node(T, n) ==
    LET node == T.nodes[n]
        mid_point == Len(node.children) \div 2
        new_node_children == SubSeq(node.children, mid_point + 1, Len(node.children))
        kept == SubSeq(node.children, 1, mid_point)
        new_id == Len(T.nodes) + 1
        new_node == IntermediateNode(OrdKey(T, node.depth, Top(new_node_children)),
                                     new_node_children, node.depth)
    IN  [T |-> [T EXCEPT
                  !.nodes = Append([@ EXCEPT ![n].children = kept,
                                             ![n].max_key = OrdKey(T, node.depth, Top(kept))],
                                   new_node)],
         new_node |-> new_id]

\* ----------------------------------------------------------------- tree.py
\* put's descent (the while loop building node_stack); <<>> stands for the
\* RuntimeError raised when node_for_insert returns None.
RECURSIVE descend(_, _, _)
descend(T, node_stack, key_bytes) ==
    IF T.nodes[Top(node_stack)].depth > 1
    THEN LET new_node == node_for_insert(T, Top(node_stack), key_bytes)
         IN  IF new_node = NoneVal THEN <<>>
             ELSE descend(T, Append(node_stack, new_node), key_bytes)
    ELSE node_stack

\* put's loop over the remaining ancestors after a successful insert.
RECURSIVE widen(_, _, _)
widen(T, node_stack, key) ==
    IF Len(node_stack) = 0 THEN T
    ELSE LET n == Top(node_stack)
         IN  IF T.nodes[n].max_key < key
             THEN widen([T EXCEPT !.nodes[n].max_key = key], Front(node_stack), key)
             ELSE T

\* The branch of split_nodes that has reached the root.
\* new_root as it would be if every new root were given depth 2.
new_root_fixed_depth(T, old_parent, new_node) ==
    LET root == IntermediateNode(T.nodes[new_node].max_key,
                                 <<old_parent, new_node>>, 2)
        id == Len(T.nodes) + 1
    IN  [T EXCEPT !.nodes = Append(@, root),
                  !.head = id,
                  !.intermediate_nodes = <<id>> \o @]

new_root(T, old_parent, new_node) ==
    LET root == IntermediateNode(T.nodes[new_node].max_key,
                                 <<old_parent, new_node>>,
                                 T.nodes[old_parent].depth + 1)
        id == Len(T.nodes) + 1
    IN  [T EXCEPT !.nodes = Append(@, root),
                  !.head = id,
                  !.intermediate_nodes = <<id>> \o @]

\* split_nodes as it would be if the parent that took the new sibling were
\* never looked at again.
split_nodes_parent_unchecked(T, node_stack) ==
    IF ~full(T.nodes[Top(node_stack)]) THEN Outcome(T, "none")
    ELSE LET old_parent == Top(node_stack)
             rest == Front(node_stack)
             sp == split_intermediate_node(T, old_parent)
         IN  IF Len(rest) = 0
             THEN Outcome(new_root(sp.T, old_parent, sp.new_node), "none")
             ELSE insert_into_intermediate_node(sp.T, Top(rest), sp.new_node)

RECURSIVE split_nodes(_, _)
split_nodes(T, node_stack) ==
    IF ~full(T.nodes[Top(node_stack)]) THEN Outcome(T, "none")
    ELSE LET old_parent == Top(node_stack)
             rest == Front(node_stack)
             sp == split_intermediate_node(T, old_parent)
         IN  IF Len(rest) = 0
             THEN Outcome(new_root(sp.T, old_parent, sp.new_node), "none")
             ELSE LET ins == insert_into_intermediate_node(sp.T, Top(rest), sp.new_node)
                  IN  IF ins.raised # "none" THEN ins
                      ELSE split_nodes(ins.T, rest)

\* put on an existing leaf: add_record, then the tx counter.
\* put on an existing leaf as it would be without the counter increment.
put_existing_no_tx(T, leaf, value, delete) ==
    [T EXCEPT !.leaves[0 - leaf] = add_record(@, value, T.tx, delete)]

\* put on an existing leaf as it would be if a delete also took the leaf
\* out of the tree's leaf_nodes.
put_existing_drops_deleted(T, leaf, value, delete) ==
    [T EXCEPT !.leaves[0 - leaf] = add_record(@, value, T.tx, delete),
              !.tx = @ + 1,
              !.leaf_nodes = IF delete THEN SelectSeq(@, LAMBDA c : c # leaf)
                             ELSE @]

put_existing(T, leaf, value, delete) ==
    [T EXCEPT !.leaves[0 - leaf] = add_record(@, value, T.tx, delete),
              !.tx = @ + 1]

\* BufferedBTree.put.  The result carries the tree the call leaves, the
\* exception that left it ("none" when it returned) and the number of
\* retries (recursive calls after split_nodes) it took.
PutResult(T, e, retries) == [T |-> T, raised |-> e, retries |-> retries]

RECURSIVE put_rec(_, _, _, _, _)
put_rec(T, key, value, delete, retries) ==
    LET node_stack == descend(T, <<T.head>>, key)
    IN  IF node_stack = <<>> THEN PutResult(T, "RuntimeError", retries)
        ELSE
        LET maybe_leaf == search_intermediate_node(T, Top(node_stack), key)
            new_leaf == 0 - (Len(T.leaves) + 1)
            T1 == [T EXCEPT !.leaves = Append(@,
                        LeafNode(key, value, T.tx, PERSIST_HISTORY))]
            ins == insert_into_intermediate_node(T1, Top(node_stack), new_leaf)
        IN  IF maybe_leaf # NoneVal
                THEN PutResult(put_existing(T, maybe_leaf, value, delete), "none", retries)
            ELSE IF delete THEN PutResult(T, "none", retries)
            ELSE IF ins.raised = "NodeFullError"
                THEN LET sp == split_nodes(T, node_stack)
                     IN  IF sp.raised # "none" THEN PutResult(sp.T, sp.raised, retries)
                         ELSE IF retries >= MaxRetry
                             THEN PutResult(sp.T, "RecursionError", retries)
                         ELSE put_rec(sp.T, key, value, FALSE, retries + 1)
            ELSE IF ins.raised # "none" THEN PutResult(T, ins.raised, retries)
            ELSE LET T2 == widen(ins.T, Front(node_stack), key)
                 IN  PutResult([T2 EXCEPT !.tx = @ + 1,
                                          !.leaf_nodes = Append(@, new_leaf)],
                               "none", retries)

put(T, key, value, delete) == put_rec(T, key, value, delete, 0)

delete(T, key) == put(T, key, NoneVal, TRUE)

RECURSIVE get_rec(_, _, _)
get_rec(T, n, key) ==
    IF T.nodes[n].depth > 1
    THEN LET new_node == search_intermediate_node(T, n, key)
         IN  IF new_node = NoneVal THEN NoneVal ELSE get_rec(T, new_node, key)
    ELSE search_intermediate_node(T, n, key)

\* BufferedBTree._get: the leaf id, NoneVal when there is none.
get_leaf(T, key) == get_rec(T, T.head, key)

get(T, key) ==
    LET leaf_node == get_leaf(T, key)
    IN  IF leaf_node # NoneVal THEN LeafAt(T, leaf_node).value ELSE NoneVal

\* BufferedBTree.as_of.  The leaf's ReadRequest is not an instance of
\* types.HistoryReadRequest, so it is returned as it is.
as_of(T, search_key, t) ==
    LET leaf_node == get_leaf(T, search_key)
    IN  IF leaf_node # NoneVal THEN leaf_as_of(LeafAt(T, leaf_node), t)
        ELSE Returned(NoneVal)

\* ----------------------------------------------------------------- actions
Call(op, key, r) == [op |-> op, key |-> key, raised |-> r.raised, retries |-> r.retries]

\* What the caller notes of a state-changing call: the tree's tx when it
\* was made, the key, the value and whether it was a delete.
Write(key, value, del, r) ==
    [key |-> key, value |-> value, delete |-> del, tx |-> tx, raised |-> r.raised]

KeyWritten(k) == \E i \in 1..Len(log) : log[i].key = k

Install(T) ==
    /\ nodes' = T.nodes
    /\ leaves' = T.leaves
    /\ head' = T.head
    /\ tx' = T.tx
    /\ leaf_nodes' = T.leaf_nodes
    /\ intermediate_nodes' = T.intermediate_nodes

\* A thread that is not inside a call: the number of calls it has made and
\* how the last one ended.
IdleThread(calls, raised) ==
    [pc |-> "idle", key |-> EmptyKey, value |-> NoneVal, delete |-> FALSE,
     node_stack |-> <<>>, maybe_leaf |-> NoneVal, new_leaf |-> NoneVal,
     tx_read |-> 0, retries |-> 0,
     calls |-> calls, raised |-> raised]

\* No search under way, on no history index.
NoSearch ==
    [io |-> "none", offset |-> 0, tx |-> 0, pc |-> "done",
     node |-> [depth |-> 0, children |-> <<>>], i |-> 0,
     result |-> NoneVal, raised |-> "none"]

\* No IOHandler constructed, no call made on one.
NoHandler ==
    [file |-> <<>>, page_size |-> 0, given |-> FALSE, calls |-> 0, op |-> "none",
     request |-> [offset |-> 0, value |-> <<>>], before |-> <<>>,
     record |-> [flags |-> 0, length |-> 0, data |-> <<>>],
     raised |-> "none", offset |-> 0, buf |-> <<>>,
     lock |-> 0, pos |-> 0, callers |-> <<>>]

\* No storage record under construction.
NoCodec ==
    [cls |-> "none", pc |-> "done", args |-> <<>>, obj |-> <<>>,
     buf |-> <<>>, out |-> <<>>, raised |-> "none"]

Init ==
    /\ threads = [t \in Threads |-> IdleThread(0, "none")]
    /\ pages = <<>>
    /\ search = NoSearch
    /\ handler = NoHandler
    /\ codec = NoCodec
    /\ tx_epoch \in Epochs
    /\ nodes = <<IntermediateNode(EmptyKey, <<>>, 1)>>
    /\ leaves = <<>>
    /\ head = 1
    /\ tx = tx_epoch
    /\ leaf_nodes = <<>>
    /\ intermediate_nodes = <<1>>
    /\ log = <<>>
    /\ last = [op |-> "init", key |-> EmptyKey, raised |-> "none", retries |-> 0]

\* A call put(key, value) with a value that is not None.
Put(k, v) ==
    /\ Len(log) < MaxOps
    /\ LET r == put(Tree, k, v, FALSE)
       IN  /\ Install(r.T)
           /\ log' = Append(log, Write(k, v, FALSE, r))
           /\ last' = Call("put", k, r)
    /\ UNCHANGED <<tx_epoch, threads, pages, search, handler, codec>>

\* A call delete(key).
Delete(k) ==
    /\ Len(log) < MaxOps
    /\ LET r == delete(Tree, k)
       IN  /\ Install(r.T)
           /\ log' = IF KeyWritten(k) THEN Append(log, Write(k, NoneVal, TRUE, r))
                     ELSE log
           /\ last' = Call("delete", k, r)
    /\ UNCHANGED <<tx_epoch, threads, pages, search, handler, codec>>

Next ==
    \/ \E k \in Keys, v \in Values : Put(k, v)
    \/ \E k \in Keys : Delete(k)

Spec == Init /\ [][Next]_vars

\* ------------------------------------------------ a tree over loaded nodes
\* The leaf LeafNode(key, vs[n], tx=n - 1, PERSIST_HISTORY, history,
\* history_offset=offset) that n writes vs[1..n] at tx 0..n-1 leave behind,
\* its earlier states in history.
LoadedLeaf(key, vs, offset) ==
    [LeafNode(key, Top(vs), Len(vs) - 1, PERSIST_HISTORY) EXCEPT
        !.history = [i \in 1..(Len(vs) - 1) |-> HistoryRecord(i - 1, vs[i], FALSE)],
        !.history_offset = offset]

\* BufferedBTree([leaf], [IntermediateNode(max_key=key, children=[leaf])],
\* ..., tx_epoch=LoadedWrites): a tree constructed over a leaf that was
\* written LoadedWrites times before, part of its history possibly in the
\* history file (history_offset > 0).  log holds those writes.
InitLoaded ==
    /\ tx_epoch = LoadedWrites
    /\ tx = tx_epoch
    /\ head = 1
    /\ leaf_nodes = <<0 - 1>>
    /\ intermediate_nodes = <<1>>
    /\ \E k \in Keys, vs \in [1..LoadedWrites -> Values], offset \in 0..MaxOffset :
          /\ nodes = <<IntermediateNode(k, <<0 - 1>>, 1)>>
          /\ leaves = <<LoadedLeaf(k, vs, offset)>>
          /\ log = [i \in 1..LoadedWrites |->
                      [key |-> k, value |-> vs[i], delete |-> FALSE, tx |-> i - 1,
                       raised |-> "none"]]
    /\ last = [op |-> "init", key |-> EmptyKey, raised |-> "none", retries |-> 0]
    /\ threads = [t \in Threads |-> IdleThread(0, "none")]
    /\ pages = <<>>
    /\ search = NoSearch
    /\ handler = NoHandler
    /\ codec = NoCodec

SpecLoaded == InitLoaded /\ [][Next]_vars

\* ------------------------------------------------- the reads, as calls
\* get and as_of walk the nodes with search and compare; they assign to
\* locals only (node_stack, leaf_node, index).  LeafNode.as_of takes the
\* leaf's lock and gives it back before it returns.  last records the call
\* and how it ended; log holds the writes only.
Read(op, k, r) ==
    [op |-> op, key |-> k, raised |-> r.raised, retries |-> 0]

\* as_of as it would be if a read took a transaction number as a write does.
AsOf_takes_tx(k, t) ==
    /\ last' = Read("as_of", k, as_of(Tree, k, t))
    /\ tx' = tx + 1
    /\ UNCHANGED <<nodes, leaves, head, leaf_nodes, intermediate_nodes,
                   log, tx_epoch, threads, pages, search, handler, codec>>

\* A call get(key).
Get(k) ==
    /\ last' = Read("get", k, Returned(get(Tree, k)))
    /\ UNCHANGED <<nodes, leaves, head, tx, leaf_nodes, intermediate_nodes,
                   log, tx_epoch, threads, pages, search, handler, codec>>

\* A call as_of(search_key, tx).
AsOf(k, t) ==
    /\ last' = Read("as_of", k, as_of(Tree, k, t))
    /\ UNCHANGED <<nodes, leaves, head, tx, leaf_nodes, intermediate_nodes,
                   log, tx_epoch, threads, pages, search, handler, codec>>

\* Writes, MaxReadWrites of them at most, with reads at any point between
\* them, on a tree that starts empty or over a loaded leaf.
InitReads == Init \/ InitLoaded

NextReads ==
    \/ Len(log) < MaxReadWrites /\ \E k \in Keys, v \in 1..MaxReadVal : Put(k, v)
    \/ Len(log) < MaxReadWrites /\ \E k \in Keys : Delete(k)
    \/ \E k \in Keys : Get(k)
    \/ \E k \in Keys, t \in Taus : AsOf(k, t)

SpecReads == InitReads /\ [][NextReads]_vars

\* ------------------------------------------- put, one thread among others
\* BufferedBTree holds no lock (only LeafNode and IOHandler do), so when
\* several threads call put another thread may run between two statements
\* of it.  The steps below are the stretches of put a thread runs in one
\* go; every run of them is a run of the code.


\* put's descent from head and its search for the key (tree.py:53-63) in
\* tree T: the thread's locals after it, at the statement it goes on to.
\* A delete of a key without a leaf returns here.
Descended(T, th) ==
    LET node_stack == descend(T, <<T.head>>, th.key)
    IN  IF node_stack = <<>>
            THEN IdleThread(th.calls, "RuntimeError")
        ELSE LET maybe_leaf == search_intermediate_node(T, Top(node_stack), th.key)
             IN  IF maybe_leaf # NoneVal
                     THEN [th EXCEPT !.pc = "add_record", !.maybe_leaf = maybe_leaf]
                 ELSE IF th.delete THEN IdleThread(th.calls, "none")
                 ELSE [th EXCEPT !.pc = "insert", !.node_stack = node_stack]

\* The thread's locals on entry to put(key, value, delete=del).
Entered(th, key, value, del) ==
    [IdleThread(th.calls + 1, "none") EXCEPT !.key = key, !.value = value, !.delete = del]

\* What the caller notes of thread t's state-changing call: the tx the
\* call stamped on the leaf.
Stamp(t) ==
    [key |-> threads[t].key, value |-> threads[t].value, delete |-> threads[t].delete,
     tx |-> tx, raised |-> "none", thread |-> t]

\* Thread t calls put(k, v) and runs to the end of the search.
ThreadPut(t, k, v) ==
    /\ threads[t].pc = "idle"
    /\ threads[t].calls < ThreadCalls
    /\ threads' = [threads EXCEPT ![t] = Descended(Tree, Entered(@, k, v, FALSE))]
    /\ UNCHANGED <<treeVars, tx_epoch, log, last, pages, search, handler, codec>>

\* Thread t calls delete(k) and runs to the end of the search.
ThreadDelete(t, k) ==
    /\ threads[t].pc = "idle"
    /\ threads[t].calls < ThreadCalls
    /\ threads' = [threads EXCEPT ![t] = Descended(Tree, Entered(@, k, NoneVal, TRUE))]
    /\ UNCHANGED <<treeVars, tx_epoch, log, last, pages, search, handler, codec>>

\* maybe_leaf.add_record(offset=0, value=value_bytes, tx=self.tx, delete=delete)
ThreadAddRecord(t) ==
    LET th == threads[t]
    IN  /\ th.pc = "add_record"
        /\ leaves' = [leaves EXCEPT ![0 - th.maybe_leaf] =
                                        add_record(@, th.value, tx, th.delete)]
        /\ log' = Append(log, Stamp(t))
        /\ threads' = [threads EXCEPT ![t].pc = "tx_load"]
        /\ UNCHANGED <<nodes, head, tx, leaf_nodes, intermediate_nodes, tx_epoch, last, pages, search, handler, codec>>

\* The new LeafNode (stamped with self.tx), its insert into the node the
\* descent ended at and the loop over the ancestors (tree.py:76-94).
ThreadInsert(t) ==
    LET th == threads[t]
        new_leaf == 0 - (Len(leaves) + 1)
        T1 == [Tree EXCEPT !.leaves = Append(@,
                    LeafNode(th.key, th.value, tx, PERSIST_HISTORY))]
        ins == insert_into_intermediate_node(T1, Top(th.node_stack), new_leaf)
        T2 == widen(ins.T, Front(th.node_stack), th.key)
    IN  /\ th.pc = "insert"
        /\ IF ins.raised = "NodeFullError"
               THEN /\ threads' = [threads EXCEPT ![t].pc = "split"]
                    /\ UNCHANGED <<nodes, leaves, log>>
           ELSE IF ins.raised # "none"
               THEN /\ threads' = [threads EXCEPT ![t] = IdleThread(th.calls, ins.raised)]
                    /\ UNCHANGED <<nodes, leaves, log>>
           ELSE /\ nodes' = T2.nodes
                /\ leaves' = T2.leaves
                /\ log' = Append(log, Stamp(t))
                /\ threads' = [threads EXCEPT ![t].pc = "tx_load",
                                              ![t].node_stack = <<>>,
                                              ![t].new_leaf = new_leaf]
        /\ UNCHANGED <<head, tx, leaf_nodes, intermediate_nodes, tx_epoch, last, pages, search, handler, codec>>

\* except NodeFullError: self.split_nodes(node_stack), then the call
\* self.put(key, value) up to the end of its search.
ThreadSplit(t) ==
    LET th == threads[t]
        sp == split_nodes(Tree, th.node_stack)
    IN  /\ th.pc = "split"
        /\ nodes' = sp.T.nodes
        /\ head' = sp.T.head
        /\ intermediate_nodes' = sp.T.intermediate_nodes
        /\ threads' = [threads EXCEPT ![t] =
              IF sp.raised # "none"
                  THEN IdleThread(th.calls, sp.raised)
              ELSE IF th.retries >= MaxRetry
                  THEN IdleThread(th.calls, "RecursionError")
              ELSE Descended(sp.T, [th EXCEPT !.node_stack = <<>>,
                                              !.retries = @ + 1])]
        /\ UNCHANGED <<leaves, tx, leaf_nodes, tx_epoch, log, last, pages, search, handler, codec>>

\* self.tx += 1, the read of self.tx.
ThreadTxLoad(t) ==
    /\ threads[t].pc = "tx_load"
    /\ threads' = [threads EXCEPT ![t].pc = "tx_store", ![t].tx_read = tx]
    /\ UNCHANGED <<treeVars, tx_epoch, log, last, pages, search, handler, codec>>

\* self.tx += 1, the store; after an insert self.leaf_nodes.append(new_leaf);
\* then put returns.
ThreadTxStore(t) ==
    LET th == threads[t]
    IN  /\ th.pc = "tx_store"
        /\ tx' = th.tx_read + 1
        /\ leaf_nodes' = IF th.new_leaf # NoneVal THEN Append(leaf_nodes, th.new_leaf)
                          ELSE leaf_nodes
        /\ threads' = [threads EXCEPT ![t] = IdleThread(th.calls, "none")]
        /\ UNCHANGED <<nodes, leaves, head, intermediate_nodes, tx_epoch, log, last, pages, search, handler, codec>>

NextThreads ==
    \/ \E t \in Threads, k \in Keys, v \in ThreadValues : ThreadPut(t, k, v)
    \/ \E t \in Threads, k \in Keys : ThreadDelete(t, k)
    \/ \E t \in Threads : ThreadAddRecord(t)
    \/ \E t \in Threads : ThreadInsert(t)
    \/ \E t \in Threads : ThreadSplit(t)
    \/ \E t \in Threads : ThreadTxLoad(t)
    \/ \E t \in Threads : ThreadTxStore(t)

\* The keys of S in ascending order.
RECURSIVE Ascending(_)
Ascending(S) ==
    IF S = {} THEN <<>>
    ELSE LET k == CHOOSE x \in S : \A y \in S : x <= y
         IN  <<k>> \o Ascending(S \ {k})

\* BufferedBTree([], [], ..., tx_epoch=epoch)
EmptyTree(epoch) ==
    [nodes |-> <<IntermediateNode(EmptyKey, <<>>, 1)>>, leaves |-> <<>>, head |-> 1,
     tx |-> epoch, leaf_nodes |-> <<>>, intermediate_nodes |-> <<1>>]

\* The tree after put(ks[1], v), ..., put(ks[n], v) by one thread.
RECURSIVE Seeded(_, _, _)
Seeded(T, ks, v) ==
    IF ks = <<>> THEN T ELSE Seeded(put(T, ks[1], v, FALSE).T, Tail(ks), v)

\* The threads start on a tree that one thread has put up to MAX_CHILDREN
\* keys into, in ascending order (a depth-1 head, full or not).
InitThreads ==
    /\ tx_epoch \in Epochs
    /\ \E S \in SUBSET Keys, v \in ThreadValues :
          /\ Cardinality(S) <= MAX_CHILDREN
          /\ LET T == Seeded(EmptyTree(tx_epoch), Ascending(S), v)
             IN  /\ nodes = T.nodes
                 /\ leaves = T.leaves
                 /\ head = T.head
                 /\ tx = T.tx
                 /\ leaf_nodes = T.leaf_nodes
                 /\ intermediate_nodes = T.intermediate_nodes
          /\ log = [i \in 1..Cardinality(S) |->
                      [key |-> Ascending(S)[i], value |-> v, delete |-> FALSE,
                       tx |-> tx_epoch + i - 1, raised |-> "none", thread |-> 0]]
    /\ last = [op |-> "init", key |-> EmptyKey, raised |-> "none", retries |-> 0]
    /\ threads = [t \in Threads |-> IdleThread(0, "none")]
    /\ pages = <<>>
    /\ search = NoSearch
    /\ handler = NoHandler
    /\ codec = NoCodec

SpecThreads == InitThreads /\ [][NextThreads]_vars

\* Every call made has returned.
AllReturned == \A t \in Threads : threads[t].pc = "idle"

\* ------------------------------------------------- types.py, searcher.py
HistoryIndexNode(depth, children) == [depth |-> depth, children |-> children]

HistoryReadRequest(offset, t) == [offset |-> offset, tx |-> t]

\* The value the record of transaction t carries (its offset in the data
\* log).
DataOffset(t) == MaxHistTx + t

RECURSIVE Pow(_, _)
Pow(b, e) == IF e = 0 THEN 1 ELSE b * Pow(b, e - 1)

\* The pages (<<offset, node>>) of a well-formed history index whose root,
\* of depth d, is at offset o and whose records have the transactions txs,
\* ascending.  Every node has HistChildren entries: <<tx, value>> in a node
\* of depth 0, <<greatest tx of the child's subtree, offset of the child>>
\* above.
RECURSIVE IndexPages(_, _, _)
IndexPages(d, txs, o) ==
    LET seg == Len(txs) \div HistChildren
        child(j) == HistChildren * (o - 1) + 1 + j
    IN  IF d = 0
        THEN {<<o, HistoryIndexNode(0, [j \in 1..HistChildren |->
                                            <<txs[j], DataOffset(txs[j])>>])>>}
        ELSE {<<o, HistoryIndexNode(d, [j \in 1..HistChildren |->
                                            <<txs[j * seg], child(j)>>])>>}
             \cup UNION {IndexPages(d - 1, SubSeq(txs, (j - 1) * seg + 1, j * seg),
                                    child(j)) : j \in 1..HistChildren}

\* The file holding the pages B.
PageFile(B) == [o \in {p[1] : p \in B} |-> (CHOOSE p \in B : p[1] = o)[2]]

\* The objects a HistorySearcher is constructed over: storage.py's
\* IOHandler, and a reader with the read(offset, size) that search calls,
\* returning the page at offset.
IoKinds == {"IOHandler", "PageReader"}

\* HistoryIndexNode.deserialize(self.io.read(offset, request.SIZE)).
\* IOHandler.read takes one request: the call with two arguments raises
\* TypeError.
read_node(io, file, offset) ==
    IF io = "IOHandler"
    THEN [raised |-> "TypeError", node |-> HistoryIndexNode(0, <<>>)]
    ELSE [raised |-> "none", node |-> file[offset]]

\* search(HistoryReadRequest(offset=1, tx=t)) is called on a well-formed
\* history index of root depth 0..MaxHistDepth.
InitSearch ==
    /\ tx_epoch = 0
    /\ nodes = EmptyTree(0).nodes
    /\ leaves = <<>>
    /\ head = 1
    /\ tx = 0
    /\ leaf_nodes = <<>>
    /\ intermediate_nodes = <<1>>
    /\ log = <<>>
    /\ last = [op |-> "init", key |-> EmptyKey, raised |-> "none", retries |-> 0]
    /\ threads = [t \in Threads |-> IdleThread(0, "none")]
    /\ handler = NoHandler
    /\ codec = NoCodec
    /\ \E d \in 0..MaxHistDepth, S \in SUBSET (1..MaxHistTx) :
          /\ Cardinality(S) = Pow(HistChildren, d + 1)
          /\ pages = PageFile(IndexPages(d, Ascending(S), 1))
    /\ \E io \in IoKinds, t \in 0..(MaxHistTx + 1) :
          search = [NoSearch EXCEPT !.io = io, !.pc = "start",
                                    !.offset = HistoryReadRequest(1, t).offset,
                                    !.tx = HistoryReadRequest(1, t).tx]

\* buf = self.io.read(request.offset, request.SIZE); node = deserialize(buf)
SearchStart ==
    LET r == read_node(search.io, pages, search.offset)
    IN  /\ search.pc = "start"
        /\ search' = IF r.raised # "none"
                         THEN [search EXCEPT !.pc = "done", !.raised = r.raised]
                      ELSE [search EXCEPT !.pc = "while", !.node = r.node]
        /\ UNCHANGED <<treeVars, tx_epoch, log, last, threads, pages, handler, codec>>

\* while node.depth > 0: the test.  (After the loop node.depth > 0 is
\* false, so the return None that follows it is never taken.)
SearchWhile ==
    /\ search.pc = "while"
    /\ search' = IF search.node.depth > 0
                     THEN [search EXCEPT !.pc = "for", !.i = 1]
                  ELSE [search EXCEPT !.pc = "leaf", !.i = 1]
    /\ UNCHANGED <<treeVars, tx_epoch, log, last, threads, pages, handler, codec>>

\* One turn of "for child in node.children" inside the while loop: the
\* loop is over (back to the while test, same node), or the child's tx is
\* above request.tx (its page becomes node, break), or the next child.
SearchFor ==
    LET kids == search.node.children
        r == read_node(search.io, pages, kids[search.i][2])
    IN  /\ search.pc = "for"
        /\ search' = IF search.i > Len(kids)
                         THEN [search EXCEPT !.pc = "while", !.i = 0]
                      ELSE IF kids[search.i][1] > search.tx
                         THEN (IF r.raised # "none"
                                  THEN [search EXCEPT !.pc = "done", !.raised = r.raised]
                               ELSE [search EXCEPT !.pc = "while", !.i = 0,
                                                   !.node = r.node])
                      ELSE [search EXCEPT !.i = @ + 1]
        /\ UNCHANGED <<treeVars, tx_epoch, log, last, threads, pages, handler, codec>>

\* One turn of "for i, child in enumerate(node.children)" on the node of
\* depth 0: the loop is over (the function ends, returning None), or the
\* child's tx is above request.tx (return node.children[i-1][1], which for
\* the first child is node.children[-1][1], the last one), or the next
\* child.
SearchLeaf ==
    LET kids == search.node.children
    IN  /\ search.pc = "leaf"
        /\ search' = IF search.i > Len(kids)
                         THEN [search EXCEPT !.pc = "done", !.result = NoneVal]
                      ELSE IF kids[search.i][1] > search.tx
                         THEN [search EXCEPT
                                  !.pc = "done",
                                  !.result = kids[IF search.i = 1 THEN Len(kids)
                                                  ELSE search.i - 1][2]]
                      ELSE [search EXCEPT !.i = @ + 1]
        /\ UNCHANGED <<treeVars, tx_epoch, log, last, threads, pages, handler, codec>>

NextSearch ==
    \/ SearchStart
    \/ SearchWhile
    \/ SearchFor
    \/ SearchLeaf

SpecSearch == InitSearch /\ [][NextSearch]_vars

\* search runs on: a step is taken whenever one can be.
SpecSearchFair == InitSearch /\ [][NextSearch]_vars /\ WF_vars(NextSearch)

\* The records of the history index: the entries of its nodes of depth 0.
Records ==
    UNION {{pages[o].children[j] : j \in 1..Len(pages[o].children)} :
              o \in {q \in DOMAIN pages : pages[q].depth = 0}}

\* The value of the record with the greatest tx <= t, none when there is
\* no such record.
ExpectedSearch(t) ==
    LET cands == {c \in Records : c[1] <= t}
    IN  IF cands = {} THEN NoneVal
        ELSE (CHOOSE c \in cands : \A d \in cands : d[1] <= c[1])[2]

\* ------------------------------------------------------ bytes and integers
\* bytearray(n): n zero bytes.
Zeros(n) == [i \in 1..n |-> 0]

Min(a, b) == IF a <= b THEN a ELSE b

\* buf[a:b] of a bytes object: the indices are clamped to the length.
Slice(buf, a, b) == SubSeq(buf, Min(a, Len(buf)) + 1, Min(b, Len(buf)))

\* buf[a:b] = x on a bytearray: the slice, clamped to the length, is
\* replaced by x, whatever the length of x.
SliceAssign(buf, a, b, x) ==
    LET lo == Min(a, Len(buf))
        hi == IF Min(b, Len(buf)) < lo THEN lo ELSE Min(b, Len(buf))
    IN  SubSeq(buf, 1, lo) \o x \o SubSeq(buf, hi + 1, Len(buf))

\* n.to_bytes(w, "little", signed=False) raises OverflowError unless
\* 0 <= n < 256^w.
RECURSIVE Fits(_, _)
Fits(n, w) ==
    IF n < 0 THEN FALSE
    ELSE IF w = 0 THEN n = 0
    ELSE Fits(n \div 256, w - 1)

\* n.to_bytes(w, "little", signed=False) when it does not raise.
RECURSIVE to_bytes(_, _)
to_bytes(n, w) ==
    IF w = 0 THEN <<>> ELSE <<n % 256>> \o to_bytes(n \div 256, w - 1)

\* int.from_bytes(b, "little", signed=False)
RECURSIVE from_bytes(_)
from_bytes(b) ==
    IF b = <<>> THEN 0 ELSE b[1] + 256 * from_bytes(Tail(b))

\* What a call gives back: a value, or the exception it raised.
Ok(v) == [raised |-> "none", value |-> v]
Err(e) == [raised |-> e, value |-> <<>>]

\* ------------------------------------------- storage_types.py: DataLogEntry
\* DataLogEntry(flags, length, data): __post_init__ checks the length.
DataLogEntry(flags, length, data) ==
    IF Len(data) # length THEN Err("ValueError")
    ELSE Ok([flags |-> flags, length |-> length, data |-> data])

\* DataLogEntry.serialize
DataLogEntry_serialize(e) ==
    IF ~Fits(e.flags, 1) \/ ~Fits(e.length, 8) THEN Err("OverflowError")
    ELSE LET buf0 == Zeros(e.length + 8 + 1)
             buf1 == SliceAssign(buf0, 0, 1, to_bytes(e.flags, 1))
             buf2 == SliceAssign(buf1, 1, 9, to_bytes(e.length, 8))
         IN  Ok(SliceAssign(buf2, 9, Len(buf2), e.data))

\* DataLogEntry.deserialize
DataLogEntry_deserialize(buf) ==
    DataLogEntry(from_bytes(Slice(buf, 0, 1)), from_bytes(Slice(buf, 1, 9)),
                 Slice(buf, 9, Len(buf)))

\* ------------------------------------------------- storage.py: IOHandler
\* offset=None in a WriteRequest.
NoOffset == 0 - 1

WriteRequest(offset, del, value, t) ==
    [offset |-> offset, delete |-> del, value |-> value, tx |-> t]

\* IOHandler(file, page_size); page_size is DefaultPageSize when not given.
IOHandler(file, page_size) == [file |-> file, page_size |-> page_size]

\* file.seek(offset); file.write(value): a seek past the end leaves a gap
\* of zero bytes.
file_write(file, offset, value) ==
    LET gap == IF offset > Len(file) THEN Zeros(offset - Len(file)) ELSE <<>>
    IN  SubSeq(file, 1, Min(offset, Len(file))) \o gap \o value
          \o SubSeq(file, offset + Len(value) + 1, Len(file))

\* file.seek(offset); file.readinto(buf): the bytes read, at most n and
\* none at or past the end.
file_readinto(file, offset, n) ==
    SubSeq(file, offset + 1, Min(offset + n, Len(file)))

\* The mutant writes first and checks the length afterwards.
io_write_checks_late(h, request) ==
    LET offset == IF request.offset = NoOffset THEN Len(h.file) ELSE request.offset
        file == file_write(h.file, offset, request.value)
    IN  IF Len(request.value) # h.page_size
        THEN [file |-> file, raised |-> "InvalidWriteRequest", offset |-> NoOffset]
        ELSE [file |-> file, raised |-> "none", offset |-> offset]

\* The mutant does not seek to the end for offset=None: it writes where the
\* stream stands, at its start.
io_write_no_seek_end(h, request) ==
    IF Len(request.value) # h.page_size
    THEN [file |-> h.file, raised |-> "InvalidWriteRequest", offset |-> NoOffset]
    ELSE LET offset == IF request.offset = NoOffset THEN 0 ELSE request.offset
         IN  [file |-> file_write(h.file, offset, request.value),
              raised |-> "none", offset |-> offset]

\* IOHandler.write(request): the file afterwards and the offset returned.
io_write(h, request) ==
    IF Len(request.value) # h.page_size
    THEN [file |-> h.file, raised |-> "InvalidWriteRequest", offset |-> NoOffset]
    ELSE LET offset == IF request.offset = NoOffset THEN Len(h.file)
                       ELSE request.offset
         IN  [file |-> file_write(h.file, offset, request.value),
              raised |-> "none", offset |-> offset]

\* IOHandler.read(request): buf is bytearray(page_size), filled from the
\* file at request.offset; a short read fails the assertion.
io_read(h, request) ==
    LET got == file_readinto(h.file, request.value[1], h.page_size)
    IN  IF Len(got) # h.page_size THEN Err("AssertionError")
        ELSE Ok(got \o Zeros(h.page_size - Len(got)))

\* A call io.read(*args): read takes exactly one request.
io_read_call(h, args) ==
    IF Len(args) # 1 THEN Err("TypeError") ELSE io_read(h, args[1])

\* ------------------------------------------------------- data_logger.py
\* write_record(io, record, tx): the file afterwards and the offset returned.
write_record(h, record, t) ==
    LET value == DataLogEntry_serialize(record)
    IN  IF value.raised # "none"
        THEN [file |-> h.file, raised |-> value.raised, offset |-> NoOffset]
        ELSE io_write(h, WriteRequest(NoOffset, FALSE, value.value, t))

\* read_record(io, offset, size)
read_record(h, offset, size) ==
    LET buf == io_read_call(h, <<offset, size>>)
    IN  IF buf.raised # "none" THEN buf ELSE DataLogEntry_deserialize(buf.value)

\* ------------------------------------------- calls on an IOHandler
\* The bytes a caller writes: n bytes that differ from place to place.
Payload(n, seed) == [i \in 1..n |-> (100 * seed + i) % 256]

Seeds == 0..MaxSeed

\* The lengths of the values written: the page size, one less, one more,
\* nothing, and the seven bytes of test_simple_roundtrip.
ValueLengths(page_size) ==
    {0, TestValueLen, page_size - 1, page_size, page_size + 1}

\* IOHandler(BytesIO(initial)) or IOHandler(BytesIO(initial), page_size):
\* without a page size the handler has the default one.
InitIO ==
    /\ tx_epoch = 0
    /\ nodes = <<IntermediateNode(EmptyKey, <<>>, 1)>>
    /\ leaves = <<>>
    /\ head = 1
    /\ tx = 0
    /\ leaf_nodes = <<>>
    /\ intermediate_nodes = <<1>>
    /\ log = <<>>
    /\ last = [op |-> "init", key |-> EmptyKey, raised |-> "none", retries |-> 0]
    /\ threads = [t \in Threads |-> IdleThread(0, "none")]
    /\ pages = <<>>
    /\ search = NoSearch
    /\ codec = NoCodec
    /\ \E n \in 0..MaxInitLen, seed \in Seeds, given \in BOOLEAN :
          LET h == IOHandler(Payload(n, seed),
                             IF given THEN ExplicitPageSize ELSE DefaultPageSize)
          IN  handler = [NoHandler EXCEPT !.file = h.file, !.page_size = h.page_size,
                                          !.given = given]

\* io.write(WriteRequest(offset, False, value, tx))
IoWrite(offset, value) ==
    /\ handler.calls < MaxIoCalls
    /\ LET request == WriteRequest(offset, FALSE, value, 0)
           r == io_write(IOHandler(handler.file, handler.page_size), request)
       IN  handler' = [handler EXCEPT !.file = r.file, !.calls = @ + 1,
                                      !.op = "write",
                                      !.request = [offset |-> offset, value |-> value],
                                      !.before = handler.file,
                                      !.raised = r.raised, !.offset = r.offset,
                                      !.buf = <<>>]
    /\ UNCHANGED <<treeVars, tx_epoch, log, last, threads, pages, search, codec>>

\* io.read(ReadRequest(offset, None))
IoRead(offset) ==
    /\ handler.calls < MaxIoCalls
    /\ LET r == io_read_call(IOHandler(handler.file, handler.page_size),
                             <<ReadRequest(offset, NoneVal)>>)
       IN  handler' = [handler EXCEPT !.calls = @ + 1, !.op = "read",
                                      !.request = [offset |-> offset, value |-> <<>>],
                                      !.before = handler.file,
                                      !.raised = r.raised, !.offset = offset,
                                      !.buf = r.value]
    /\ UNCHANGED <<treeVars, tx_epoch, log, last, threads, pages, search, codec>>

\* DataLogger(io).write(DataLogEntry(flags, length, data), tx)
LoggerWrite(flags, data) ==
    /\ handler.calls < MaxIoCalls
    /\ LET record == DataLogEntry(flags, Len(data), data).value
           r == write_record(IOHandler(handler.file, handler.page_size), record, 0)
       IN  handler' = [handler EXCEPT !.file = r.file, !.calls = @ + 1,
                                      !.op = "write_record",
                                      !.request = [offset |-> NoOffset,
                                                   value |-> DataLogEntry_serialize(record).value],
                                      !.before = handler.file,
                                      !.record = record,
                                      !.raised = r.raised, !.offset = r.offset,
                                      !.buf = <<>>]
    /\ UNCHANGED <<treeVars, tx_epoch, log, last, threads, pages, search, codec>>

\* DataLogger(io).read(offset, size)
LoggerRead(offset, size) ==
    /\ handler.calls < MaxIoCalls
    /\ LET r == read_record(IOHandler(handler.file, handler.page_size), offset, size)
       IN  handler' = [handler EXCEPT !.calls = @ + 1, !.op = "read_record",
                                      !.request = [offset |-> offset, value |-> <<>>],
                                      !.before = handler.file,
                                      !.record = IF r.raised = "none" THEN r.value
                                                 ELSE NoHandler.record,
                                      !.raised = r.raised, !.offset = offset,
                                      !.buf = <<>>]
    /\ UNCHANGED <<treeVars, tx_epoch, log, last, threads, pages, search, codec>>

NextIO ==
    \/ \E offset \in {NoOffset} \cup 0..(Len(handler.file) + 1),
          n \in ValueLengths(handler.page_size), seed \in Seeds :
          IoWrite(offset, Payload(n, seed))
    \/ \E offset \in 0..Len(handler.file) : IoRead(offset)
    \/ \E flags \in {0, 1}, n \in 0..MaxEntryLen, seed \in Seeds :
          LoggerWrite(flags, Payload(n, seed))
    \/ \E offset \in 0..Len(handler.file),
          size \in {handler.page_size, MaxEntryLen + 8 + 1} :
          LoggerRead(offset, size)

SpecIO == InitIO /\ [][NextIO]_vars

\* --------------------------------------- threads writing through one IOHandler
\* handler.lock when no thread holds it.
NoThread == 0

\* A thread's call io.write(request): where it stands, the offset it holds
\* and how the call ended.
IoCaller(request) ==
    [pc |-> "check", request |-> request, offset |-> NoOffset, raised |-> "none"]

\* The mutant takes the lock whoever holds it.
can_acquire_always(lock, t) == TRUE

\* RLock.acquire() by thread t goes through when the lock is free or t
\* holds it already.
can_acquire(lock, t) == lock = NoThread \/ lock = t

\* Each thread calls write once, with bytes of its own; the file object
\* stands at its start.
InitIOThreads ==
    /\ tx_epoch = 0
    /\ nodes = <<IntermediateNode(EmptyKey, <<>>, 1)>>
    /\ leaves = <<>>
    /\ head = 1
    /\ tx = 0
    /\ leaf_nodes = <<>>
    /\ intermediate_nodes = <<1>>
    /\ log = <<>>
    /\ last = [op |-> "init", key |-> EmptyKey, raised |-> "none", retries |-> 0]
    /\ threads = [t \in Threads |-> IdleThread(0, "none")]
    /\ pages = <<>>
    /\ search = NoSearch
    /\ codec = NoCodec
    /\ \E n \in 0..MaxInitLen, given \in BOOLEAN,
          offsets \in [Threads -> {NoOffset, 0}],
          extra \in [Threads -> {0, 1}] :
          LET h == IOHandler(Payload(n, 0),
                             IF given THEN ExplicitPageSize ELSE DefaultPageSize)
          IN  handler =
                [NoHandler EXCEPT
                    !.file = h.file, !.page_size = h.page_size, !.given = given,
                    !.before = h.file,
                    !.callers =
                        [t \in Threads |->
                            IoCaller(WriteRequest(offsets[t], FALSE,
                                         Payload(h.page_size + extra[t], t), 0))]]

\* if len(request.value) != self.page_size: raise InvalidWriteRequest
WriteCheck(t) ==
    /\ handler.callers[t].pc = "check"
    /\ handler' =
          IF Len(handler.callers[t].request.value) # handler.page_size
          THEN [handler EXCEPT !.callers[t].pc = "done",
                               !.callers[t].raised = "InvalidWriteRequest"]
          ELSE [handler EXCEPT !.callers[t].pc = "acquire"]
    /\ UNCHANGED <<treeVars, tx_epoch, log, last, threads, pages, search, codec>>

\* with self.lock: offset = request.offset
WriteAcquire(t) ==
    /\ handler.callers[t].pc = "acquire"
    /\ can_acquire(handler.lock, t)
    /\ handler' =
          [handler EXCEPT !.lock = t,
                          !.callers[t].offset = handler.callers[t].request.offset,
                          !.callers[t].pc =
                              IF handler.callers[t].request.offset = NoOffset
                              THEN "seek_end" ELSE "seek"]
    /\ UNCHANGED <<treeVars, tx_epoch, log, last, threads, pages, search, codec>>

\* self.file.seek(0, 2)
WriteSeekEnd(t) ==
    /\ handler.callers[t].pc = "seek_end"
    /\ handler' = [handler EXCEPT !.pos = Len(handler.file),
                                  !.callers[t].pc = "tell"]
    /\ UNCHANGED <<treeVars, tx_epoch, log, last, threads, pages, search, codec>>

\* offset = self.file.tell()
WriteTell(t) ==
    /\ handler.callers[t].pc = "tell"
    /\ handler' = [handler EXCEPT !.callers[t].offset = handler.pos,
                                  !.callers[t].pc = "seek"]
    /\ UNCHANGED <<treeVars, tx_epoch, log, last, threads, pages, search, codec>>

\* self.file.seek(offset)
WriteSeek(t) ==
    /\ handler.callers[t].pc = "seek"
    /\ handler' = [handler EXCEPT !.pos = handler.callers[t].offset,
                                  !.callers[t].pc = "write"]
    /\ UNCHANGED <<treeVars, tx_epoch, log, last, threads, pages, search, codec>>

\* self.file.write(request.value): at the position the file object stands at
WriteBytes(t) ==
    /\ handler.callers[t].pc = "write"
    /\ handler' =
          [handler EXCEPT
              !.file = file_write(handler.file, handler.pos,
                                  handler.callers[t].request.value),
              !.pos = handler.pos + Len(handler.callers[t].request.value),
              !.callers[t].pc = "release"]
    /\ UNCHANGED <<treeVars, tx_epoch, log, last, threads, pages, search, codec>>

\* the end of the with block, and return offset
WriteRelease(t) ==
    /\ handler.callers[t].pc = "release"
    /\ handler' = [handler EXCEPT !.lock = IF handler.lock = t THEN NoThread
                                           ELSE handler.lock,
                                  !.callers[t].pc = "done"]
    /\ UNCHANGED <<treeVars, tx_epoch, log, last, threads, pages, search, codec>>

NextIOThreads ==
    \E t \in Threads :
        \/ WriteCheck(t)
        \/ WriteAcquire(t)
        \/ WriteSeekEnd(t)
        \/ WriteTell(t)
        \/ WriteSeek(t)
        \/ WriteBytes(t)
        \/ WriteRelease(t)

SpecIOThreads == InitIOThreads /\ [][NextIOThreads]_vars

\* Thread t appended a page: its request had no offset and page_size bytes.
Appended(t) ==
    /\ handler.callers[t].pc = "done"
    /\ handler.callers[t].request.offset = NoOffset
    /\ Len(handler.callers[t].request.value) = handler.page_size


\* -------------------------------------- storage_types.py: HistoryIndexEntry
CHILD_TUPLE_SIZE == 1 + 16 + 8 + 8

\* HistoryIndexEntry.SIZE
HistoryIndexEntry_SIZE == CHILD_TUPLE_SIZE * HistChildren + 2

\* HistoryIndexEntry(offset, depth, children): __post_init__ checks the
\* number of children.
HistoryIndexEntry(offset, depth, children) ==
    IF Len(children) # HistChildren THEN Err("ValueError")
    ELSE Ok([offset |-> offset, depth |-> depth, children |-> children])

\* The bytes of one (flags u8, tx u128, offset u64, length u64) child.
ChildTupleFits(child) ==
    Fits(child[1], 1) /\ Fits(child[2], 16) /\ Fits(child[3], 8) /\ Fits(child[4], 8)

ChildTupleBytes(child) ==
    to_bytes(child[1], 1) \o to_bytes(child[2], 16)
      \o to_bytes(child[3], 8) \o to_bytes(child[4], 8)

\* The loop of serialize from child i (counted from 0) on.
RECURSIVE HistoryIndexEntry_put_children(_, _, _)
HistoryIndexEntry_put_children(buf, children, i) ==
    IF i >= Len(children) THEN buf
    ELSE LET of == i * CHILD_TUPLE_SIZE + 2
         IN  HistoryIndexEntry_put_children(
                 SliceAssign(buf, of, of + CHILD_TUPLE_SIZE,
                             ChildTupleBytes(children[i + 1])),
                 children, i + 1)

\* HistoryIndexEntry.serialize: the depth is written with to_bytes(1, ...)
\* into the two-byte slice buf[0:2].
HistoryIndexEntry_serialize(e) ==
    IF ~Fits(e.depth, 1) \/ \E i \in 1..Len(e.children) : ~ChildTupleFits(e.children[i])
    THEN Err("OverflowError")
    ELSE Ok(HistoryIndexEntry_put_children(
                SliceAssign(Zeros(HistoryIndexEntry_SIZE), 0, 2, to_bytes(e.depth, 1)),
                e.children, 0))

\* The child deserialize reads at index i (counted from 0).
HistoryIndexEntry_get_child(buf, i) ==
    LET o == (i * CHILD_TUPLE_SIZE) + 2
    IN  <<from_bytes(Slice(buf, o, o + 1)),
          from_bytes(Slice(buf, o + 1, o + 17)),
          from_bytes(Slice(buf, o + 17, o + 25)),
          from_bytes(Slice(buf, o + 25, o + 33))>>

\* HistoryIndexEntry.deserialize(buf, offset)
HistoryIndexEntry_deserialize(buf, offset) ==
    HistoryIndexEntry(offset, from_bytes(Slice(buf, 0, 2)),
                      [i \in 1..HistChildren |-> HistoryIndexEntry_get_child(buf, i - 1)])

\* ------------------------------------- storage_types.py: ValueDataLogEntry
\* flags | 1
OrOne(flags) == IF flags % 2 = 1 THEN flags ELSE flags + 1

\* ValueDataLogEntry(flags, length, data, key_offset): __post_init__ runs
\* DataLogEntry's check and then its own on the flags.
ValueDataLogEntry(flags, length, data, key_offset) ==
    IF DataLogEntry(flags, length, data).raised # "none"
    THEN DataLogEntry(flags, length, data)
    ELSE IF OrOne(flags) # 1 THEN Err("ValueError")
    ELSE Ok([flags |-> flags, length |-> length, data |-> data,
             key_offset |-> key_offset])

\* ValueDataLogEntry.serialize
ValueDataLogEntry_serialize(e) ==
    IF ~Fits(e.flags, 1) \/ ~Fits(e.length, 8) \/ ~Fits(e.key_offset, 8)
    THEN Err("OverflowError")
    ELSE LET buf0 == Zeros(e.length + 8 + 8 + 1)
             buf1 == SliceAssign(buf0, 0, 1, to_bytes(e.flags, 1))
             buf2 == SliceAssign(buf1, 1, 9, to_bytes(e.length, 8))
             buf3 == SliceAssign(buf2, 9, 17, to_bytes(e.key_offset, 8))
         IN  Ok(SliceAssign(buf3, 17, Len(buf3), e.data))

\* ValueDataLogEntry.deserialize
ValueDataLogEntry_deserialize(buf) ==
    ValueDataLogEntry(from_bytes(Slice(buf, 0, 1)), from_bytes(Slice(buf, 1, 9)),
                      Slice(buf, 17, Len(buf)), from_bytes(Slice(buf, 9, 17)))

\* ---------------------------------------- storage_types.py: MainIndexEntry
\* MainIndexEntry.SIZE = 2 + ceil(MAX_CHILDREN / 8) + MAX_CHILDREN * 24
MainIndexEntry_SIZE == 2 + ((HistChildren + 7) \div 8) + HistChildren * (8 + 8 + 8)

\* What the class MainIndexEntry defines: its three fields and SIZE.
MainIndexEntry_attributes == {"depth", "entry_flags", "children", "SIZE"}

\* MainIndexEntry(depth, entry_flags, children): a dataclass without a
\* __post_init__, it checks nothing.
MainIndexEntry(depth, entry_flags, children) ==
    Ok([depth |-> depth, entry_flags |-> entry_flags, children |-> children])

\* getattr(obj, name): AttributeError when the class defines no such name.
lookup(attributes, name) ==
    IF name \in attributes THEN Ok(name) ELSE Err("AttributeError")

\* mie.serialize(): MainIndexEntry defines no serialize.
MainIndexEntry_serialize(e) == lookup(MainIndexEntry_attributes, "serialize")

\* MainIndexEntry.deserialize(buf): MainIndexEntry defines no deserialize.
MainIndexEntry_deserialize(buf) == lookup(MainIndexEntry_attributes, "deserialize")

\* ------------------------------------------- types.py: HistoryIndexNode
CHILD_SIZE == 16 + VALUE_SIZE

\* HistoryReadRequest.SIZE: the number of bytes the searcher reads for a node.
HistoryReadRequest_SIZE == ((16 + 8) * HistChildren) + 2

\* HistoryIndexNode(depth, children) with its __post_init__: the number of
\* children, then the length of each child's value.
HistoryIndexNode_new(depth, children) ==
    IF Len(children) # HistChildren THEN Err("ValueError")
    ELSE IF \E i \in 1..Len(children) : Len(children[i][2]) # VALUE_SIZE
    THEN Err("AssertionError")
    ELSE Ok(HistoryIndexNode(depth, children))

\* The loop of serialize from child i (counted from 0) on.
RECURSIVE HistoryIndexNode_put_children(_, _, _)
HistoryIndexNode_put_children(buf, children, i) ==
    IF i >= Len(children) THEN buf
    ELSE LET o == (i * CHILD_SIZE) + 2
         IN  HistoryIndexNode_put_children(
                 SliceAssign(buf, o, o + CHILD_SIZE,
                             to_bytes(children[i + 1][1], 16) \o children[i + 1][2]),
                 children, i + 1)

\* HistoryIndexNode.serialize
HistoryIndexNode_serialize(n) ==
    IF ~Fits(n.depth, 2) \/ \E i \in 1..Len(n.children) : ~Fits(n.children[i][1], 16)
    THEN Err("OverflowError")
    ELSE Ok(HistoryIndexNode_put_children(
                SliceAssign(Zeros(((16 + 8) * HistChildren) + 2), 0, 2,
                            to_bytes(n.depth, 2)),
                n.children, 0))

\* HistoryIndexNode.deserialize
HistoryIndexNode_deserialize(buf) ==
    HistoryIndexNode_new(
        from_bytes(Slice(buf, 0, 2)),
        [i \in 1..HistChildren |->
            LET o == ((i - 1) * CHILD_SIZE) + 2
            IN  <<from_bytes(Slice(buf, o, o + 16)), Slice(buf, o + 16, o + CHILD_SIZE)>>])

\* ------------------------------- constructing, encoding, decoding a record
RecordClasses ==
    {"HistoryIndexNode", "HistoryIndexEntry", "MainIndexEntry",
     "DataLogEntry", "ValueDataLogEntry"}

\* cls(**args)
construct(cls, args) ==
    CASE cls = "HistoryIndexNode" -> HistoryIndexNode_new(args.depth, args.children)
      [] cls = "HistoryIndexEntry" ->
             HistoryIndexEntry(args.offset, args.depth, args.children)
      [] cls = "MainIndexEntry" ->
             MainIndexEntry(args.depth, args.entry_flags, args.children)
      [] cls = "DataLogEntry" -> DataLogEntry(args.flags, args.length, args.data)
      [] cls = "ValueDataLogEntry" ->
             ValueDataLogEntry(args.flags, args.length, args.data, args.key_offset)

\* obj.serialize()
serialize(cls, obj) ==
    CASE cls = "HistoryIndexNode" -> HistoryIndexNode_serialize(obj)
      [] cls = "HistoryIndexEntry" -> HistoryIndexEntry_serialize(obj)
      [] cls = "MainIndexEntry" -> MainIndexEntry_serialize(obj)
      [] cls = "DataLogEntry" -> DataLogEntry_serialize(obj)
      [] cls = "ValueDataLogEntry" -> ValueDataLogEntry_serialize(obj)

\* cls.deserialize(buf), for a HistoryIndexEntry cls.deserialize(buf, offset)
deserialize(cls, buf, offset) ==
    CASE cls = "HistoryIndexNode" -> HistoryIndexNode_deserialize(buf)
      [] cls = "HistoryIndexEntry" -> HistoryIndexEntry_deserialize(buf, offset)
      [] cls = "MainIndexEntry" -> MainIndexEntry_deserialize(buf)
      [] cls = "DataLogEntry" -> DataLogEntry_deserialize(buf)
      [] cls = "ValueDataLogEntry" -> ValueDataLogEntry_deserialize(buf)

\* The lists of 0..HistChildren + 1 children drawn from a set of children.
ChildLists(S) == UNION {[1..n -> S] : n \in 0..(HistChildren + 1)}

\* The depths a record is constructed with: those of one byte, the first
\* of two bytes and the largest u16.
Depths == {0, TestDepth, U8Max, U8Max + 1, U16Max}

\* The arguments the records are constructed from.
Arguments(cls) ==
    CASE cls = "HistoryIndexNode" ->
             [depth : {0, TestDepth},
              children : ChildLists({<<0, Zeros(VALUE_SIZE)>>,
                                     <<MaxField, to_bytes(MaxField, VALUE_SIZE)>>})]
      [] cls = "HistoryIndexEntry" ->
             [offset : 0..MaxOffset, at : 0..MaxOffset, depth : Depths,
              children : ChildLists({<<1, 0, 0, 0>>, <<1, 1, 2, 3>>,
                                     <<U8Max, MaxField, MaxField, MaxField>>})]
      [] cls = "MainIndexEntry" ->
             [depth : {0, TestDepth}, entry_flags : 0..HistChildren,
              children : ChildLists({<<1, 0, 0>>, <<1, 1, 2>>})]
      [] cls = "DataLogEntry" ->
             [flags : {0, 1}, length : 0..MaxEntryLen,
              data : {Payload(n, 0) : n \in 0..MaxEntryLen}]
      [] cls = "ValueDataLogEntry" ->
             [flags : {0, 1, 2, 3, U8Max}, length : 0..MaxEntryLen,
              data : {Payload(n, 0) : n \in 0..MaxEntryLen},
              key_offset : {0, MaxField}]

InitCodec ==
    /\ tx_epoch = 0
    /\ nodes = <<IntermediateNode(EmptyKey, <<>>, 1)>>
    /\ leaves = <<>>
    /\ head = 1
    /\ tx = 0
    /\ leaf_nodes = <<>>
    /\ intermediate_nodes = <<1>>
    /\ log = <<>>
    /\ last = [op |-> "init", key |-> EmptyKey, raised |-> "none", retries |-> 0]
    /\ threads = [t \in Threads |-> IdleThread(0, "none")]
    /\ pages = <<>>
    /\ search = NoSearch
    /\ handler = NoHandler
    /\ \E cls \in RecordClasses : \E args \in Arguments(cls) :
          codec = [NoCodec EXCEPT !.cls = cls, !.pc = "new", !.args = args]

\* obj = cls(**args)
Construct ==
    /\ codec.pc = "new"
    /\ LET r == construct(codec.cls, codec.args)
       IN  codec' = [codec EXCEPT !.pc = IF r.raised = "none" THEN "constructed"
                                         ELSE "construct_raised",
                                  !.obj = r.value, !.raised = r.raised]
    /\ UNCHANGED <<treeVars, tx_epoch, log, last, threads, pages, search, handler>>

\* buf = obj.serialize()
Serialize ==
    /\ codec.pc = "constructed"
    /\ LET r == serialize(codec.cls, codec.obj)
       IN  codec' = [codec EXCEPT !.pc = IF r.raised = "none" THEN "serialized"
                                         ELSE "serialize_raised",
                                  !.buf = r.value, !.raised = r.raised]
    /\ UNCHANGED <<treeVars, tx_epoch, log, last, threads, pages, search, handler>>

\* out = cls.deserialize(buf)
Deserialize ==
    /\ codec.pc = "serialized"
    /\ LET r == deserialize(codec.cls, codec.buf,
                            IF codec.cls = "HistoryIndexEntry" THEN codec.args.at ELSE 0)
       IN  codec' = [codec EXCEPT !.pc = IF r.raised = "none" THEN "done"
                                         ELSE "deserialize_raised",
                                  !.out = r.value, !.raised = r.raised]
    /\ UNCHANGED <<treeVars, tx_epoch, log, last, threads, pages, search, handler>>

NextCodec ==
    \/ Construct
    \/ Serialize
    \/ Deserialize

SpecCodec == InitCodec /\ [][NextCodec]_vars

\* serialize has been called on the record.
SerializeCalled == codec.pc \in {"serialized", "serialize_raised", "done", "deserialize_raised"}

\* ------------------------------------------------- what the caller observed
\* The state-changing calls made on key k, in call order.
WritesTo(k) == SelectSeq(log, LAMBDA w : w.key = k)

\* The tree structure reachable from a node, by following children.
RECURSIVE ReachableNodes(_, _)
ReachableNodes(T, n) ==
    {n} \cup UNION {ReachableNodes(T, T.nodes[n].children[i]) :
                        i \in {j \in 1..Len(T.nodes[n].children) :
                                  ~IsLeaf(T.nodes[n].children[j])}}

RECURSIVE LeafDistances(_, _, _)
LeafDistances(T, c, d) ==
    IF IsLeaf(c) THEN {d}
    ELSE UNION {LeafDistances(T, T.nodes[c].children[i], d + 1) :
                    i \in 1..Len(T.nodes[c].children)}

\* The depth-1 node put routes key k to.
RoutedNode(k) == Top(descend(Tree, <<head>>, k))

\* ------------------------------------------------------------------ claims

\* C1 (read-your-writes): whenever the most recent state-changing call on a
\* key k was a put(k, v) that returned, get(k) is v -- in every reachable
\* state, so also after later puts of other keys split k's node or grew a
\* new root.
C1_ReadYourWrites ==
    \A k \in Keys :
        LET ws == WritesTo(k)
        IN  (Len(ws) > 0 /\ ~Top(ws).delete /\ Top(ws).raised = "none")
                => get(Tree, k) = Top(ws).value

\* A key written by a put that was not the last call, read back after the
\* last call (a put of another key) split a node and the root has grown twice.
C1_Witness ==
    \E k \in Keys :
        /\ Len(WritesTo(k)) > 0
        /\ ~Top(WritesTo(k)).delete
        /\ last.op = "put" /\ last.key # k /\ last.retries = 1
        /\ nodes[head].depth = 3
        /\ get(Tree, k) = Top(WritesTo(k)).value

\* C2 (delete semantics): whenever the most recent state-changing call on a
\* key k was a delete(k) of a key that had a leaf, get(k) is none -- in every
\* later state until the next put(k, _).
C2_DeleteSemantics ==
    \A k \in Keys :
        LET ws == WritesTo(k)
        IN  (Len(ws) > 0 /\ Top(ws).delete /\ Top(ws).raised = "none")
                => get(Tree, k) = NoneVal

\* A key deleted earlier, still read as none after a later put of another
\* key split its node.
C2_Witness ==
    \E k \in Keys :
        /\ Len(WritesTo(k)) > 1
        /\ Top(WritesTo(k)).delete
        /\ last.op = "put" /\ last.key # k /\ last.retries = 1
        /\ get(Tree, k) = NoneVal

\* C3 (monotonic tx): the tree's tx is tx_epoch plus the number of
\* state-changing calls made (every put, every delete of a key that has a
\* leaf); deletes of keys without a leaf are not counted and a put that
\* splits and retries is counted once.
C3_MonotonicTx == tx = tx_epoch + Len(log)

\* A put that split and retried, on a tree with a non-zero epoch, after a
\* delete of a key with a leaf.
C3_Witness ==
    /\ tx_epoch > 0
    /\ last.op = "put" /\ last.retries = 1
    /\ \E i \in 1..Len(log) : log[i].delete
    /\ tx = tx_epoch + MaxOps

\* The value as_of(k, t) is meant to return: the value of the write to k
\* with the greatest transaction <= t, none for a delete or when there is
\* no such write.
ExpectedAsOf(k, t) ==
    LET ws == SelectSeq(WritesTo(k), LAMBDA w : w.tx <= t)
    IN  IF Len(ws) = 0 THEN NoneVal ELSE Top(ws).value

\* C4 (as-of correctness): for every key k and every transaction t,
\* as_of(k, t) returns the value written to k at the greatest transaction
\* <= t, none if that write was a delete or if there is no such write.
C4_AsOfCorrect ==
    \A k \in Keys : \A t \in Taus :
        as_of(Tree, k, t) = Returned(ExpectedAsOf(k, t))

\* C5 (as_of at or after the current tx): for every leaf and every
\* t >= leaf.tx, LeafNode.as_of(t) returns the leaf's current value, none
\* when the current state is a delete.
C5_AsOfCurrent ==
    \A i \in 1..Len(leaves) : \A t \in Taus :
        t >= leaves[i].tx
            => leaf_as_of(leaves[i], t) =
                   Returned(IF leaves[i].delete THEN NoneVal ELSE leaves[i].value)

\* C6 (as_of of a key written once): for a key written exactly once, at
\* transaction t0, as_of(k, t) raises nothing, returns the written value
\* for t >= t0 and none for t < t0.
C6_AsOfWrittenOnce ==
    \A k \in Keys : \A t \in Taus :
        LET ws == WritesTo(k)
        IN  Len(ws) = 1
                => as_of(Tree, k, t) =
                       Returned(IF t >= ws[1].tx THEN ws[1].value ELSE NoneVal)

\* C7 (delete of a key without a leaf): a delete(k) of a key that was never
\* put raises nothing and leaves tx, head, every node, every leaf and both
\* working sets as they were.
C7_DeleteAbsentNoOp ==
    [][(last'.op = "delete" /\ ~KeyWritten(last'.key))
          => (last'.raised = "none" /\ UNCHANGED treeVars)]_vars

\* A delete of a never-put key that routes to a full depth-1 node, on a tree
\* that has grown a root.
C7_Witness ==
    /\ last.op = "delete" /\ ~KeyWritten(last.key)
    /\ nodes[head].depth > 1
    /\ full(nodes[RoutedNode(last.key)])

\* C8 (NodeFull is recovered): no call surfaces NodeFull (nor runs out of
\* retries), and every put needs at most one split_nodes call and one retry.
C8_NodeFullRecovered ==
    /\ last.raised \notin {"NodeFullError", "RecursionError"}
    /\ last.retries <= 1

\* A put whose split_nodes inserted the new sibling into a parent, filled
\* it, split it too and grew a new root, then retried.
C8_Witness ==
    /\ last.op = "put" /\ last.retries = 1 /\ last.raised = "none"
    /\ nodes[head].depth = 3

\* C9 (ordering): in every intermediate node reachable from head that has a
\* child, the children are strictly ascending by ordering key and the
\* node's max_key is the ordering key of its last child.
C9_Ordering ==
    \A n \in ReachableNodes(Tree, head) :
        LET node == nodes[n]
            kids == node.children
        IN  Len(kids) > 0 =>
              /\ \A i \in 1..(Len(kids) - 1) :
                    OrdKey(Tree, node.depth, kids[i]) < OrdKey(Tree, node.depth, kids[i + 1])
              /\ node.max_key = OrdKey(Tree, node.depth, Top(kids))

\* A tree of depth 3 whose last put extended the maximum key.
C9_Witness ==
    /\ nodes[head].depth = 3
    /\ last.op = "put" /\ last.key = NumKeys
    /\ nodes[head].max_key = NumKeys

\* C10 (balance): all leaves are at the same distance from head; a node of
\* depth 1 has only leaves as children, a node of depth d > 1 only
\* intermediate nodes of depth d - 1.
C10_Balance ==
    /\ Cardinality(LeafDistances(Tree, head, 0)) <= 1
    /\ \A n \in ReachableNodes(Tree, head) :
          \A i \in 1..Len(nodes[n].children) :
              LET c == nodes[n].children[i]
              IN  IF nodes[n].depth = 1 THEN IsLeaf(c)
                  ELSE ~IsLeaf(c) /\ nodes[c].depth = nodes[n].depth - 1

\* A tree whose root has grown twice, all its leaves three levels down.
C10_Witness ==
    /\ nodes[head].depth = 3
    /\ LeafDistances(Tree, head, 0) = {3}
    /\ Len(leaves) = 5

\* The children insert could be handed for node n: a new leaf for any key
\* at depth 1, any node one level down above it.
InsertCandidates(T, n) ==
    IF T.nodes[n].depth = 1 THEN {0 - (Len(T.leaves) + 1)}
    ELSE {c \in 1..Len(T.nodes) : T.nodes[c].depth = T.nodes[n].depth - 1}

\* The tree with a new leaf for key k allocated (not yet inserted).
WithNewLeaf(T, k) ==
    [T EXCEPT !.leaves = Append(@, LeafNode(k, 1, T.tx, PERSIST_HISTORY))]

\* C11 (size): every intermediate node has at most MAX_CHILDREN children,
\* and insert on a node that has MAX_CHILDREN children raises NodeFullError
\* and leaves the node as it was, whatever the child.
C11_SizeInvariant ==
    \A n \in 1..Len(nodes) :
        /\ Len(nodes[n].children) <= MAX_CHILDREN
        /\ Len(nodes[n].children) = MAX_CHILDREN =>
              \A k \in Keys :
                  LET T1 == WithNewLeaf(Tree, k)
                  IN  \A c \in InsertCandidates(Tree, n) :
                          LET r == insert_into_intermediate_node(T1, n, c)
                          IN  r.raised = "NodeFullError" /\ r.T = T1

\* A put that met a node with MAX_CHILDREN children, was refused, split and
\* retried, in a tree that again holds a node with MAX_CHILDREN children.
C11_Witness ==
    /\ last.op = "put" /\ last.retries = 1
    /\ \E n \in 1..Len(nodes) :
          /\ Len(nodes[n].children) = MAX_CHILDREN
          /\ \E k \in Keys :
                insert_into_intermediate_node(WithNewLeaf(Tree, k), n,
                    0 - (Len(leaves) + 1)).raised = "NodeFullError"

\* C12 (split): split of a node with n >= 2 children keeps the first
\* floor(n/2) children, moves the other ceil(n/2), in order, to a new node
\* of the same depth; the two child lists concatenated are the original
\* list, and each of the two nodes has the ordering key of its last child
\* as max_key.
C12_SplitHalves ==
    \A n \in 1..Len(nodes) :
        LET kids == nodes[n].children
            cnt == Len(kids)
            sp == split_intermediate_node(Tree, n)
            left == sp.T.nodes[n]
            right == sp.T.nodes[sp.new_node]
        IN  cnt >= 2 =>
              /\ sp.new_node \notin 1..Len(nodes)
              /\ left.children = SubSeq(kids, 1, cnt \div 2)
              /\ Len(right.children) = cnt - (cnt \div 2)
              /\ left.children \o right.children = kids
              /\ left.depth = nodes[n].depth
              /\ right.depth = nodes[n].depth
              /\ left.max_key = OrdKey(Tree, nodes[n].depth, Top(left.children))
              /\ right.max_key = OrdKey(Tree, nodes[n].depth, Top(right.children))

\* After a put that split, a tree of depth 3 with a node of MAX_CHILDREN
\* children, which split divides into a smaller and a larger half.
C12_Witness ==
    /\ last.op = "put" /\ last.retries = 1
    /\ nodes[head].depth = 3
    /\ \E n \in 1..Len(nodes) :
          LET sp == split_intermediate_node(Tree, n)
          IN  /\ Len(nodes[n].children) = MAX_CHILDREN
              /\ Len(sp.T.nodes[n].children) = MAX_CHILDREN \div 2
              /\ Len(sp.T.nodes[sp.new_node].children) = MAX_CHILDREN - (MAX_CHILDREN \div 2)

\* C13 (split-new-root): a put of a key smaller than every key of a head of
\* depth 1 that holds MAX_CHILDREN leaves leaves get(key) = value, a new
\* head one deeper than the old one, with exactly two children, neither of
\* them full.
C13_SplitNewRoot ==
    [][(/\ nodes[head].depth = 1
        /\ Len(nodes[head].children) = MAX_CHILDREN
        /\ last'.op = "put"
        /\ \A i \in 1..MAX_CHILDREN :
              last'.key < LeafAt(Tree, nodes[head].children[i]).key)
          => (/\ last'.raised = "none"
              /\ get(Tree', last'.key) = Top(log').value
              /\ head' # head
              /\ nodes'[head'].depth = nodes[head].depth + 1
              /\ Len(nodes'[head'].children) = 2
              /\ \A i \in 1..Len(nodes'[head'].children) :
                    Len(nodes'[nodes'[head'].children[i]].children) < MAX_CHILDREN)]_vars

\* The tree after MAX_CHILDREN puts of distinct keys and one put of a key
\* below them all, which split the head.
C13_Witness ==
    /\ Len(log) = MAX_CHILDREN + 1
    /\ Len(leaves) = MAX_CHILDREN + 1
    /\ last.op = "put" /\ last.retries = 1
    /\ \A i \in 1..MAX_CHILDREN : last.key < log[i].key
    /\ nodes[head].depth = 2
    /\ get(Tree, last.key) = Top(log).value

\* C14 (history order): for a key written by n >= 1 puts and no delete, the
\* leaf's value is the last value put and its history holds exactly the
\* n - 1 earlier values, in write order, each with the tx it was written
\* at.
C14_HistoryOrder ==
    \A k \in Keys :
        LET ws == WritesTo(k)
        IN  (Len(ws) >= 1 /\ \A i \in 1..Len(ws) : ~ws[i].delete) =>
              /\ \E i \in 1..Len(leaves) : leaves[i].key = k
              /\ \A i \in 1..Len(leaves) :
                    leaves[i].key = k =>
                      /\ leaves[i].value = Top(ws).value
                      /\ Len(leaves[i].history) = Len(ws) - 1
                      /\ \A j \in 1..(Len(ws) - 1) :
                            /\ leaves[i].history[j].value = ws[j].value
                            /\ leaves[i].history[j].tx = ws[j].tx

\* A key put four times, the first two values different, with a put of
\* another key in between.
C14_Witness ==
    \E k \in Keys :
        /\ Len(WritesTo(k)) = 4
        /\ \A i \in 1..4 : ~WritesTo(k)[i].delete
        /\ WritesTo(k)[1].value # WritesTo(k)[2].value
        /\ Len(log) = 5 /\ log[3].key # k
        /\ \E i \in 1..Len(leaves) : leaves[i].key = k /\ Len(leaves[i].history) = 3

\* C15 (mutations under threads): once every call of every thread has
\* returned, no two state-changing calls were stamped with the same tx and
\* the tree's tx is tx_epoch plus the number of state-changing calls.
C15_SerializedMutations ==
    AllReturned =>
        /\ \A i, j \in 1..Len(log) : i # j => log[i].tx # log[j].tx
        /\ tx = tx_epoch + Len(log)

\* C16 (no lost insert under threads): once every call has returned, if
\* all the calls made were puts of distinct new keys, each key a thread put
\* is read back by get and the ordering and balance invariants hold.
C16_NoLostInsert ==
    (/\ AllReturned
     /\ \A i \in 1..Len(log) : ~log[i].delete
     /\ \A i, j \in 1..Len(log) : i # j => log[i].key # log[j].key)
        => /\ \A i \in 1..Len(log) :
                 log[i].thread # 0 => get(Tree, log[i].key) = log[i].value
           /\ C9_Ordering
           /\ C10_Balance

\* The capacity of a leaf's in-memory history buffer: leaf_node.py's
\* MAX_CHILDREN.
HistoryCapacity == MAX_CHILDREN

\* C17 (bounded history buffer): no leaf's in-memory history holds more
\* records than the buffer capacity, however often its key is overwritten.
C17_BoundedHistory ==
    \A i \in 1..Len(leaves) : Len(leaves[i].history) <= HistoryCapacity

\* C18 (as_of on spilled history): for a leaf with history_offset # 0 and a
\* tx older than every record of its in-memory history, BufferedBTree.as_of
\* raises nothing and returns a value or none, not the read request.
C18_AsOfResolved ==
    \A i \in 1..Len(leaves) : \A t \in Taus :
        (/\ leaves[i].history_offset # 0
         /\ Len(leaves[i].history) > 0
         /\ t < leaves[i].history[1].tx)
            => LET r == as_of(Tree, leaves[i].key, t)
               IN  r.raised = "none" /\ ~r.request

\* C19 (history search result): whenever search returns, on a well-formed
\* history index, it returns the value of the record with the greatest tx
\* <= the request's tx, none when every record has a greater tx.
C19_SearchResult ==
    (search.pc = "done" /\ search.raised = "none")
        => search.result = ExpectedSearch(search.tx)

\* C20 (history search terminates): every search on a well-formed history
\* index eventually returns or raises.
C20_SearchTerminates == <>(search.pc = "done")

\* C21: an append (offset=None) of page_size bytes to a stream of length L
\* is stored at [L, L + page_size), returns L and leaves the bytes before L
\* as they were; a read at the returned offset then gives the bytes written.
C21_AppendReadBack ==
    (/\ handler.op = "write"
     /\ handler.request.offset = NoOffset
     /\ Len(handler.request.value) = handler.page_size)
    => LET L == Len(handler.before)
           back == io_read(IOHandler(handler.file, handler.page_size),
                           ReadRequest(handler.offset, NoneVal))
       IN  /\ handler.raised = "none"
           /\ handler.offset = L
           /\ Len(handler.file) = L + handler.page_size
           /\ SubSeq(handler.file, 1, L) = handler.before
           /\ SubSeq(handler.file, L + 1, L + handler.page_size) = handler.request.value
           /\ back.raised = "none"
           /\ back.value = handler.request.value

\* An append of a page to a handler whose stream already holds bytes, after
\* an earlier call.
C21_Witness ==
    /\ handler.op = "write"
    /\ handler.request.offset = NoOffset
    /\ Len(handler.request.value) = handler.page_size
    /\ Len(handler.before) > 0
    /\ handler.calls > 1
    /\ handler.offset = Len(handler.before)

\* C22: a write whose length is not page_size raises InvalidWriteRequest and
\* leaves the stream, contents and length, as it was.
C22_PageSizeEnforced ==
    (handler.op = "write" /\ Len(handler.request.value) # handler.page_size)
    => /\ handler.raised = "InvalidWriteRequest"
       /\ handler.file = handler.before

\* A write of one byte too many, into the middle of a stream that holds
\* bytes.
C22_Witness ==
    /\ handler.op = "write"
    /\ Len(handler.request.value) = handler.page_size + 1
    /\ handler.request.offset # NoOffset
    /\ handler.request.offset < Len(handler.before)
    /\ handler.raised = "InvalidWriteRequest"

\* C23: a handler constructed without a page size accepts an append of a
\* value of any length and returns its offset.
C23_OptionalPageSize ==
    (/\ handler.op = "write"
     /\ ~handler.given
     /\ handler.request.offset = NoOffset)
    => /\ handler.raised = "none"
       /\ handler.offset = Len(handler.before)

\* C24: DataLogger.write(e, tx) succeeds for every entry e and returns the
\* offset it was appended at, and DataLogger.read(o, len(serialize(e)))
\* gives back an entry equal to e.
C24_LoggerRoundTrip ==
    handler.op = "write_record"
    => LET back == read_record(IOHandler(handler.file, handler.page_size),
                               handler.offset, Len(handler.request.value))
       IN  /\ handler.raised = "none"
           /\ handler.offset = Len(handler.before)
           /\ back.raised = "none"
           /\ back.value = handler.record

\* C25: for every depth 0..65535 and every list of exactly F children,
\* HistoryIndexEntry.serialize gives exactly 2 + 33*F bytes, and deserialize
\* of them at file offset o gives a record with offset o, the same depth and
\* the same children in the same order.
C25_HistoryEntryRoundTrip ==
    (/\ codec.cls = "HistoryIndexEntry"
     /\ Len(codec.args.children) = HistChildren
     /\ SerializeCalled)
    => /\ codec.pc \in {"serialized", "done"}
       /\ Len(codec.buf) = 2 + 33 * HistChildren
       /\ codec.pc = "done"
            => codec.out = [offset |-> codec.args.at, depth |-> codec.args.depth,
                            children |-> codec.args.children]

\* C26: constructing a HistoryIndexNode, HistoryIndexEntry or MainIndexEntry
\* with a number of children other than F raises ValueError, and with
\* exactly F children it succeeds.
C26_ChildCountChecked ==
    (/\ codec.cls \in {"HistoryIndexNode", "HistoryIndexEntry", "MainIndexEntry"}
     /\ codec.pc # "new")
    => IF Len(codec.args.children) = HistChildren
       THEN codec.pc # "construct_raised"
       ELSE codec.pc = "construct_raised" /\ codec.raised = "ValueError"

\* C27: for every MainIndexEntry with exactly F children, serialize gives
\* exactly MainIndexEntry.SIZE = 2 + ceil(F/8) + 24*F bytes and
\* deserialize(serialize(m)) has the same depth, entry_flags and children.
C27_MainEntryRoundTrip ==
    (/\ codec.cls = "MainIndexEntry"
     /\ Len(codec.args.children) = HistChildren
     /\ SerializeCalled)
    => /\ codec.pc \in {"serialized", "done"}
       /\ Len(codec.buf) = MainIndexEntry_SIZE
       /\ codec.pc = "done"
            => /\ codec.out.depth = codec.args.depth
               /\ codec.out.entry_flags = codec.args.entry_flags
               /\ codec.out.children = codec.args.children

\* C28: every ValueDataLogEntry that has been constructed has bit 0 of its
\* flags set; a flags byte with bit 0 clear is rejected.
C28_ValueEntryFlags ==
    (/\ codec.cls = "ValueDataLogEntry"
     /\ codec.pc # "new")
    => IF codec.args.flags % 2 = 1 \/ Len(codec.args.data) # codec.args.length
       THEN codec.pc # "construct_raised" => codec.obj.flags % 2 = 1
       ELSE codec.pc = "construct_raised"

\* C29: in every state reached by put and delete from an empty tree, each
\* leaf's history is strictly ascending in tx, the tx of its last history
\* record is less than the leaf's tx, and the leaf's tx is at most the
\* tree's tx.
C29_LeafTxInvariant ==
    \A i \in 1..Len(leaves) :
        LET history == leaves[i].history
        IN  /\ \A j \in 1..(Len(history) - 1) : history[j].tx < history[j + 1].tx
            /\ Len(history) > 0 => Top(history).tx < leaves[i].tx
            /\ leaves[i].tx <= tx

\* A leaf written four times, once by a delete, with a call on another key
\* in between, in a tree of several leaves.
C29_Witness ==
    /\ Len(leaves) >= 2
    /\ \E i \in 1..Len(leaves) :
          /\ Len(leaves[i].history) = 3
          /\ \E j \in 1..3 : leaves[i].history[j].delete
          /\ leaves[i].history[3].tx > leaves[i].history[2].tx + 1
          /\ leaves[i].tx = tx - 1

\* C30: every history record has its value absent exactly when its deleted
\* flag is set: the record of a live value is never flagged deleted and a
\* tombstone's record always is.
C30_RecordFlagMatchesValue ==
    \A i \in 1..Len(leaves) :
        \A j \in 1..Len(leaves[i].history) :
            (leaves[i].history[j].value = NoneVal) <=> leaves[i].history[j].delete

\* C31: LeafNode.as_of(tx) returns a read request for the history file only
\* when history_offset # 0 and tx is less than the tx of the oldest record
\* of the in-memory history; for a tx at or above the oldest in-memory tx
\* the answer comes from the in-memory history or the current value.
C31_ReadRequestOnlyForOlder ==
    \A i \in 1..Len(leaves) : \A t \in Taus :
        LET r == leaf_as_of(leaves[i], t)
            history == leaves[i].history
        IN  /\ r.request => /\ leaves[i].history_offset # 0
                            /\ t < history[1].tx
            /\ (Len(history) > 0 /\ t >= history[1].tx)
                  => (r.raised = "none" /\ ~r.request)

\* A child of node n of T has the ordering key of c.
HasOrdKey(T, n, c) ==
    \E j \in 1..Len(T.nodes[n].children) :
        OrdKey(T, T.nodes[n].depth, T.nodes[n].children[j])
            = OrdKey(T, T.nodes[n].depth, c)

C33_ExclusiveAppends ==
    \A t, u \in Threads :
        (/\ t # u /\ Appended(t) /\ Appended(u)
         /\ \A w \in Threads : handler.callers[w].request.offset = NoOffset) =>
            LET o == handler.callers[t].offset
                q == handler.callers[u].offset
            IN  /\ handler.callers[t].raised = "none"
                /\ o # q
                /\ (o + handler.page_size <= q \/ q + handler.page_size <= o)
                /\ SubSeq(handler.file, o + 1, o + handler.page_size)
                      = handler.callers[t].request.value
                /\ SubSeq(handler.file, 1, Len(handler.before)) = handler.before

\* Both threads appended to a stream that held bytes, the second thread
\* first.
C33_Witness ==
    /\ Appended(1) /\ Appended(2)
    /\ Len(handler.before) > 0
    /\ handler.callers[2].offset = Len(handler.before)
    /\ handler.callers[1].offset = Len(handler.before) + handler.page_size
    /\ Len(handler.file) = Len(handler.before) + 2 * handler.page_size

\* The leaves reachable from node n by following children.
RECURSIVE ReachableLeaves(_, _)
ReachableLeaves(T, n) ==
    UNION {IF IsLeaf(T.nodes[n].children[i]) THEN {T.nodes[n].children[i]}
           ELSE ReachableLeaves(T, T.nodes[n].children[i]) :
               i \in 1..Len(T.nodes[n].children)}

\* C34: the tree's intermediate_nodes holds every intermediate node
\* reachable from head, the siblings made by splits included, and head is
\* its first element.
C34_IntermediateWorkingSet ==
    /\ intermediate_nodes[1] = head
    /\ ReachableNodes(Tree, head)
          \subseteq {intermediate_nodes[i] : i \in 1..Len(intermediate_nodes)}

\* leaf_nodes holds each leaf once, one leaf for each key ever put and none
\* for any other key, and they are the leaves reachable from head.
LeafWorkingSet ==
    LET S == {leaf_nodes[i] : i \in 1..Len(leaf_nodes)}
    IN  /\ Cardinality(S) = Len(leaf_nodes)
        /\ \A k \in Keys :
              Cardinality({c \in S : LeafAt(Tree, c).key = k})
                 = IF \E i \in 1..Len(log) : log[i].key = k /\ ~log[i].delete
                   THEN 1 ELSE 0
        /\ S = ReachableLeaves(Tree, head)

\* C35: in every state reached by put and delete from an empty tree,
\* leaf_nodes holds exactly one leaf per distinct key ever put, they are the
\* leaves reachable from head, and the collection never shrinks: every call
\* leaves what it held in place and at most appends to it.
C35_LeafWorkingSet ==
    /\ []LeafWorkingSet
    /\ [][/\ Len(leaf_nodes') >= Len(leaf_nodes)
          /\ SubSeq(leaf_nodes', 1, Len(leaf_nodes)) = leaf_nodes]_vars

\* A put that split and retried has added its leaf, in a tree of four
\* leaves or more one of which is a tombstone.
C35_Witness ==
    /\ last.op = "put" /\ last.retries >= 1 /\ last.raised = "none"
    /\ Len(leaf_nodes) >= 4
    /\ \E i \in 1..Len(leaf_nodes) : LeafAt(Tree, leaf_nodes[i]).delete
    /\ LeafAt(Tree, Top(leaf_nodes)).key = last.key

\* C36: the bytes HistoryIndexNode.serialize produces are 2 + 33*F long,
\* which is HistoryReadRequest.SIZE, the number of bytes the searcher reads
\* for one node, so that what the searcher reads decodes to the node.
C36_RecordSizeAgreement ==
    (codec.cls = "HistoryIndexNode" /\ SerializeCalled)
    => /\ codec.pc \in {"serialized", "done"}
       /\ Len(codec.buf) = 2 + 33 * HistChildren
       /\ Len(codec.buf) = HistoryReadRequest_SIZE
       /\ LET r == HistoryIndexNode_deserialize(
                       Slice(codec.buf, 0, HistoryReadRequest_SIZE))
          IN  r.raised = "none" /\ r.value = codec.obj

\* C37: after every completed put on a tree that started empty, every
\* intermediate node above depth 1 that is reachable from head holds fewer
\* than MAX_CHILDREN children (MAX_CHILDREN >= 3): split_nodes splits a
\* parent as soon as the sibling it received fills it.
C37_EagerSplit ==
    (MAX_CHILDREN >= 3 /\ last.op = "put")
    => \A n \in ReachableNodes(Tree, head) :
           nodes[n].depth > 1 => Len(nodes[n].children) < MAX_CHILDREN

\* A put has just split a full depth-1 node whose parent was thereby filled
\* and split in turn: the tree has grown to depth 3 in a put that retried.
C37_Witness ==
    /\ last.op = "put" /\ last.raised = "none" /\ last.retries > 0
    /\ nodes[head].depth = 3
    /\ \E n \in ReachableNodes(Tree, head) : nodes[n].depth = 2

\* C38: get(k) and as_of(k, tx), for every key and tx and whatever they
\* return (a value, None, a read request) or raise, leave the tree's tx and head,
\* every node's children and max_key, and every leaf's value, tx, delete
\* flag and history as they were.
C38_ReadsArePure ==
    [][(last'.op \in {"get", "as_of"} /\ last' # last)
       => /\ tx' = tx /\ head' = head
          /\ Len(nodes') = Len(nodes) /\ Len(leaves') = Len(leaves)
          /\ \A n \in 1..Len(nodes) :
                 /\ nodes'[n].children = nodes[n].children
                 /\ nodes'[n].max_key = nodes[n].max_key
          /\ \A i \in 1..Len(leaves) :
                 /\ leaves'[i].value = leaves[i].value
                 /\ leaves'[i].tx = leaves[i].tx
                 /\ leaves'[i].delete = leaves[i].delete
                 /\ leaves'[i].history = leaves[i].history]_vars

\* An as_of on a key that is there has been made on a tree of depth 2,
\* after a root split (on a leaf written once it ends in IndexError).
C38_Witness ==
    /\ last.op = "as_of"
    /\ get_leaf(Tree, last.key) # NoneVal
    /\ nodes[head].depth = 2

====
